---- MODULE Spec2Model ----
(***************************************************************************)
(* A model of the bikepacking-tracker ingestion engine:                    *)
(*   app/routers/spot.py    feed normalisation, feed fetch, device         *)
(*                          resolution, live_positions write planning      *)
(*   app/routers/tracks.py  track upload, track_points write planning      *)
(*   app/db.py              the per-request store session                  *)
(*                                                                         *)
(* Python values are tagged records, so that a number, a string and None   *)
(* stay distinct and Python's truthiness (`x or y`, `if x:`) can be        *)
(* computed the way the interpreter computes it.                           *)
(***************************************************************************)
EXTENDS Integers, Sequences, FiniteSets, TLC

(***************************************************************************)
(* Bounds of the model.                                                    *)
(***************************************************************************)
\* longest message list of a feed payload handed to a parser
MaxMsgs == 2
\* most devices rows the store holds before a request
MaxInitDevices == 2
\* most successive calls of ensure_spot_device_for_user
MaxCalls == 2
MaxBatch == 2
MaxPts == 3

(***************************************************************************)
(* Python values.                                                          *)
(***************************************************************************)
None == [t |-> "none"]
Num(n) == [t |-> "num", n |-> n]
Str(s) == [t |-> "str", s |-> s]
Dict(f) == [t |-> "dict", v |-> f]
List(s) == [t |-> "list", l |-> s]
\* the outcome of an expression that raised an exception
Raised == [t |-> "raise"]
\* an aware datetime at a given epoch second, and the ingestion wall clock
Dt(n) == [t |-> "dt", epoch |-> n]
Now == [t |-> "now"]

\* bool(x) as Python computes it for the values above
Truthy(x) ==
    CASE x.t = "none" -> FALSE
      [] x.t = "num"  -> x.n # 0
      [] x.t = "str"  -> x.s # ""
      [] x.t = "dict" -> DOMAIN x.v # {}
      [] x.t = "list" -> Len(x.l) > 0
      [] OTHER        -> TRUE

\* Python's `a or b`
Or(a, b) == IF Truthy(a) THEN a ELSE b

\* dict.get(k) on a dict value (a missing key and a JSON null both give None)
Get(d, k) == IF k \in DOMAIN d.v THEN d.v[k] ELSE None

(***************************************************************************)
(* The strings of the model and what the conversions do to them.           *)
(***************************************************************************)
\* str.strip(): the strings that carry surrounding white space
StripTable == (" " :> "") @@ (" 7 " :> "7")
Strip(s) == IF s \in DOMAIN StripTable THEN StripTable[s] ELSE s

\* float(s): the strings float() accepts (it strips white space itself)
FloatTable == ("0" :> 0) @@ ("3" :> 3) @@ ("5" :> 5) @@ ("7" :> 7) @@ (" 7 " :> 7) @@ ("1e1" :> 10)
\* int(s): the strings int() accepts ("1e1" is a float literal only)
IntTable == ("0" :> 0) @@ ("3" :> 3) @@ ("5" :> 5) @@ ("7" :> 7) @@ (" 7 " :> 7)
\* str(n) for the numbers of the model
NumStr == (0 :> "0") @@ (3 :> "3") @@ (5 :> "5") @@ (7 :> "7") @@ (10 :> "10")

\* datetime.strptime / fromisoformat: the layout each timestamp text matches
\* and the epoch second it denotes
DateTable ==
    ("1970-01-01T00:01:40+0000" :> [layout |-> "fmt1", epoch |-> 100]) @@
    ("1970-01-01T00:01:40.250+0000" :> [layout |-> "fmt2", epoch |-> 100]) @@
    ("1970-01-01 00:01:40+00:00" :> [layout |-> "iso", epoch |-> 100])

(***************************************************************************)
(* spot.py: feed normalisation.                                            *)
(***************************************************************************)
\* _safe_float(x)
SafeFloat(x) ==
    IF x.t = "none" \/ (x.t = "str" /\ x.s = "") THEN None
    ELSE IF x.t = "num" THEN x
    ELSE IF x.t = "str" /\ x.s \in DOMAIN FloatTable THEN Num(FloatTable[x.s])
    ELSE None

\* int(unix) inside _parse_dt; Raised when int() raises
IntOf(x) ==
    IF x.t = "num" THEN x
    ELSE IF x.t = "str" /\ x.s \in DOMAIN IntTable THEN Num(IntTable[x.s])
    ELSE Raised

\* the textual part of _parse_dt: the two strptime layouts, then fromisoformat
\* for a text ending in "+00:00"; every exception is swallowed
ParseDateText(date_str) ==
    IF date_str.t # "str" \/ date_str.s \notin DOMAIN DateTable THEN Now
    ELSE IF DateTable[date_str.s].layout \in {"fmt1", "fmt2"} THEN Dt(DateTable[date_str.s].epoch)
    ELSE IF DateTable[date_str.s].layout = "iso" THEN Dt(DateTable[date_str.s].epoch)
    ELSE Now

\* _parse_dt(unix, date_str)
ParseDt(unix, date_str) ==
    IF Truthy(unix) /\ IntOf(unix) # Raised
    THEN Dt(IntOf(unix).n)
    ELSE IF Truthy(date_str) THEN ParseDateText(date_str)
    ELSE Now

\* `(x or "").strip() or None`; Raised when .strip() is called on a non-string
StripOrNone(x) ==
    LET y == Or(x, Str(""))
    IN  IF y.t # "str" THEN Raised
        ELSE IF Strip(y.s) = "" THEN None ELSE Str(Strip(y.s))

\* `str(x or "").strip() or None`
StrStripOrNone(x) ==
    LET y == Or(x, Str(""))
        s == IF y.t = "num" THEN NumStr[y.n] ELSE IF y.t = "str" THEN y.s ELSE "obj"
    IN  IF Strip(s) = "" THEN None ELSE Str(Strip(s))

\* the body of the loop of parse_spot_json for one message m:
\* Raised, or [keep : BOOLEAN, rec : the normalised record]
JsonMessage(m) ==
    LET lat == SafeFloat(Or(Get(m, "latitude"), Get(m, "lat")))
        lon == SafeFloat(Or(Or(Get(m, "longitude"), Get(m, "lng")), Get(m, "lon")))
        z == SafeFloat(Or(Get(m, "altitude"), Get(m, "alt")))
        speed == SafeFloat(Get(m, "speed"))
        battery == StripOrNone(Or(Get(m, "batteryState"), Get(m, "battery")))
        msg_type == StripOrNone(Or(Get(m, "messageType"), Get(m, "type")))
        esn == StripOrNone(Or(Get(m, "esn"), Get(m, "messengerId")))
        mid == StrStripOrNone(Or(Get(m, "id"), Get(m, "messageId")))
        ts == ParseDt(Get(m, "unixTime"), Or(Get(m, "dateTime"), Get(m, "time")))
    IN  IF m.t # "dict" \/ Raised \in {battery, msg_type, esn} THEN Raised
        ELSE [keep |-> lat # None /\ lon # None,
              rec |-> [lat |-> lat, lon |-> lon, z |-> z, ts |-> ts,
                       speed_kph |-> speed, battery |-> battery,
                       msg_type |-> msg_type, esn |-> esn, message_id |-> mid]]

\* the records a parser appends, in input order, for per-message outcomes rs
RECURSIVE Kept(_)
Kept(rs) ==
    IF rs = <<>> THEN <<>>
    ELSE IF Head(rs).keep THEN <<Head(rs).rec>> \o Kept(Tail(rs))
    ELSE Kept(Tail(rs))

\* the message collection parse_spot_json locates in the payload:
\* None when there is none, Raised when a .get() meets a non-dict
LocateItems(payload) ==
    IF payload.t # "dict" THEN Raised
    ELSE
    LET res == Or(Get(payload, "response"), payload)
    IN  IF res.t # "dict" THEN Raised
        ELSE
        LET fmr == Or(Or(Get(res, "feedMessageResponse"), Get(res, "messages")), res)
        IN  IF fmr.t # "dict" THEN Raised
            ELSE
            LET msgs == IF "messages" \in DOMAIN fmr.v THEN fmr.v["messages"] ELSE Dict(<<>>)
                items0 == IF msgs.t = "dict" THEN Get(msgs, "message") ELSE msgs
            IN  IF items0 = None THEN Get(fmr, "message") ELSE items0

\* parse_spot_json(payload): [raised : BOOLEAN, items : the returned list]
parse_spot_json(payload) ==
    LET located == LocateItems(payload)
        items == IF located.t = "dict" THEN <<located>>
                 ELSE IF located.t = "list" THEN located.l ELSE <<>>
        rs == [i \in 1..Len(items) |-> JsonMessage(items[i])]
    IN  IF located = Raised \/ located.t = "num" \/ (located.t = "str" /\ located.s # "")
        THEN [raised |-> TRUE, items |-> <<>>]
        ELSE IF located = None \/ located.t = "str" THEN [raised |-> FALSE, items |-> <<>>]
        ELSE IF \E i \in 1..Len(items) : rs[i] = Raised THEN [raised |-> TRUE, items |-> <<>>]
        ELSE [raised |-> FALSE, items |-> Kept(rs)]

\* g(tag) of parse_spot_xml: the stripped text of the first child with that
\* tag; None when the child is missing or has no text
XmlText(m, tag) ==
    IF tag \in DOMAIN m.v /\ m.v[tag].t = "str" THEN Str(Strip(m.v[tag].s)) ELSE None

\* the body of the loop of parse_spot_xml for one <message> element
XmlMessage(m) ==
    LET lat == SafeFloat(Or(XmlText(m, "latitude"), XmlText(m, "lat")))
        lon == SafeFloat(Or(Or(XmlText(m, "longitude"), XmlText(m, "lng")), XmlText(m, "lon")))
        z == SafeFloat(Or(XmlText(m, "altitude"), XmlText(m, "alt")))
        speed == SafeFloat(XmlText(m, "speed"))
        battery == StripOrNone(Or(XmlText(m, "batteryState"), XmlText(m, "battery")))
        msg_type == StripOrNone(Or(XmlText(m, "messageType"), XmlText(m, "type")))
        esn == StripOrNone(Or(XmlText(m, "esn"), XmlText(m, "messengerId")))
        mid == StripOrNone(Or(XmlText(m, "id"), XmlText(m, "messageId")))
        ts == ParseDt(XmlText(m, "unixTime"), Or(XmlText(m, "dateTime"), XmlText(m, "time")))
    IN  IF Raised \in {battery, msg_type, esn, mid} THEN Raised
        ELSE [keep |-> lat # None /\ lon # None,
              rec |-> [lat |-> lat, lon |-> lon, z |-> z, ts |-> ts,
                       speed_kph |-> speed, battery |-> battery,
                       msg_type |-> msg_type, esn |-> esn, message_id |-> mid]]

\* parse_spot_xml(xml_bytes): a document is [wellformed, msgs], msgs being the
\* <message> elements root.findall(".//message") yields, in document order
parse_spot_xml(doc) ==
    LET rs == [i \in 1..Len(doc.msgs) |-> XmlMessage(doc.msgs[i])]
    IN  IF ~doc.wellformed THEN [raised |-> TRUE, items |-> <<>>]
        ELSE IF \E i \in 1..Len(rs) : rs[i] = Raised THEN [raised |-> TRUE, items |-> <<>>]
        ELSE [raised |-> FALSE, items |-> Kept(rs)]

(***************************************************************************)
(* The relational store: schema introspection and the devices table.       *)
(***************************************************************************)
\* a uuid; uuid4() yields one that no row carries yet
Uuid(k) == [t |-> "uuid", k |-> k]

\* the columns of devices the code knows, besides id
DevOptional == {"user_id", "type", "provider", "external_id", "name", "status"}
DevColumns == {"id"} \cup DevOptional

\* information_schema for a devices table with the columns cols: the columns
\* enumCols are of an enum type with the labels `labels` (in sort order), the
\* columns nn are NOT NULL without a default; uniq is whether the store
\* enforces uniqueness of (type, external_id)
DevSchema(cols, enumCols, labels, nn, uniq) ==
    [ cols |-> cols,
      types |-> [c \in cols |->
                  IF c \in enumCols THEN [dt |-> "USER-DEFINED", udt |-> c \o "_enum"]
                  ELSE IF c \in {"id", "user_id"} THEN [dt |-> "uuid", udt |-> "uuid"]
                  ELSE [dt |-> "character varying", udt |-> "varchar"]],
      labels |-> [u \in {c \o "_enum" : c \in enumCols \cap cols} |-> labels],
      cons |-> [c \in cols |-> [is_nullable |-> IF c \in nn THEN "NO" ELSE "YES",
                                column_default |-> None]],
      uniq |-> uniq ]

\* get_enum_labels(db, type_name)
get_enum_labels(sch, udt) == IF udt \in DOMAIN sch.labels THEN sch.labels[udt] ELSE <<>>

\* str.lower() for the labels of the model
LowerTable == ("SPOT" :> "spot") @@ ("Active" :> "active")
Lower(l) == IF l \in DOMAIN LowerTable THEN LowerTable[l] ELSE l

\* a choice that always takes the first label
EnumChoiceFirst(labels, want) == IF Len(labels) > 0 THEN Str(labels[1]) ELSE None

\* `next((l for l in labels if l.lower() == want), labels[0] if labels else None)`
EnumChoice(labels, want) ==
    LET hits == {i \in 1..Len(labels) : Lower(labels[i]) = want}
    IN  IF hits # {} THEN Str(labels[CHOOSE i \in hits : \A j \in hits : i <= j])
        ELSE IF Len(labels) > 0 THEN Str(labels[1]) ELSE None

\* the value chosen for the column col (type, provider, status): None without
\* the column, the enum label for an enum column, else the literal `want`
LabelVal(sch, col, want) ==
    IF col \notin sch.cols THEN None
    ELSE IF sch.types[col].dt = "USER-DEFINED" /\ sch.types[col].udt # ""
         THEN EnumChoice(get_enum_labels(sch, sch.types[col].udt), want)
         ELSE Str(want)

\* external_id_val
ExternalIdVal(sch, esn) ==
    IF "external_id" \in sch.cols THEN Or(esn, Str("unknown")) ELSE None

\* name_val
NameVal(sch, esn) ==
    IF "name" \notin sch.cols THEN None
    ELSE IF Truthy(esn) THEN Str("SPOT " \o esn.s) ELSE Str("SPOT device")

\* `SELECT id FROM devices WHERE ... LIMIT 1` then .first(): the id of the
\* first row, in the store's scan order, among the rows at the indexes hits
FirstId(rows, hits) ==
    IF hits = {} THEN None ELSE rows[CHOOSE i \in hits : \A j \in hits : i <= j].id

\* the exact lookup on (provider, external_id), scoped to the user when the
\* table has user_id; None when it is skipped or matches nothing
ExactLookup(sch, rows, user_id, esn) ==
    LET p == LabelVal(sch, "provider", "spot")
        ext == ExternalIdVal(sch, esn)
    IN  IF {"provider", "external_id", "id"} \subseteq sch.cols /\ Truthy(p) /\ Truthy(ext)
        THEN FirstId(rows, {i \in 1..Len(rows) :
                 /\ rows[i].provider = p /\ rows[i].external_id = ext
                 /\ "user_id" \in sch.cols => rows[i].user_id = Str(user_id)})
        ELSE None

\* the fallback lookup on (user_id, name), each part only if the column exists
FallbackLookup(sch, rows, user_id, esn) ==
    LET byUser == "user_id" \in sch.cols
        byName == "name" \in sch.cols /\ Truthy(NameVal(sch, esn))
    IN  IF byUser \/ byName
        THEN FirstId(rows, {i \in 1..Len(rows) :
                 /\ byUser => rows[i].user_id = Str(user_id)
                 /\ byName => rows[i].name = NameVal(sch, esn)})
        ELSE None

\* the columns and bound values of the INSERT INTO devices: add(col, value)
\* names a column when the value is not None or the column is NOT NULL
\* without a default
DeviceBind(sch, user_id, esn, dev_id) ==
    LET val == [c \in DevOptional |->
                  CASE c = "user_id" -> IF "user_id" \in sch.cols THEN Str(user_id) ELSE None
                    [] c = "type" -> LabelVal(sch, "type", "spot")
                    [] c = "provider" -> LabelVal(sch, "provider", "spot")
                    [] c = "external_id" -> ExternalIdVal(sch, esn)
                    [] c = "name" -> NameVal(sch, esn)
                    [] c = "status" -> LabelVal(sch, "status", "active")]
        named == {c \in DevOptional \cap sch.cols :
                    \/ val[c] # None
                    \/ sch.cons[c].is_nullable = "NO" /\ sch.cons[c].column_default = None}
    IN  [c \in {"id"} \cup named |-> IF c = "id" THEN dev_id ELSE val[c]]

\* a resolver that tries the (user_id, name) lookup before the exact one
ensure_fallback_first(sch, rows, user_id, esn, dev_id) ==
    IF "id" \notin sch.cols
    THEN [kind |-> "error", id |-> None, bind |-> <<>>]
    ELSE IF FallbackLookup(sch, rows, user_id, esn) # None
    THEN [kind |-> "found", id |-> FallbackLookup(sch, rows, user_id, esn), bind |-> <<>>]
    ELSE IF ExactLookup(sch, rows, user_id, esn) # None
    THEN [kind |-> "found", id |-> ExactLookup(sch, rows, user_id, esn), bind |-> <<>>]
    ELSE [kind |-> "create", id |-> dev_id, bind |-> DeviceBind(sch, user_id, esn, dev_id)]

\* ensure_spot_device_for_user(db, user_id, esn) on the devices rows the
\* session sees; dev_id is the uuid4() it would draw.  It raises (error),
\* returns an existing id (found) or executes an INSERT (create).
ensure_spot_device_for_user(sch, rows, user_id, esn, dev_id) ==
    IF "id" \notin sch.cols
    THEN [kind |-> "error", id |-> None, bind |-> <<>>]
    ELSE IF ExactLookup(sch, rows, user_id, esn) # None
    THEN [kind |-> "found", id |-> ExactLookup(sch, rows, user_id, esn), bind |-> <<>>]
    ELSE IF FallbackLookup(sch, rows, user_id, esn) # None
    THEN [kind |-> "found", id |-> FallbackLookup(sch, rows, user_id, esn), bind |-> <<>>]
    ELSE [kind |-> "create", id |-> dev_id, bind |-> DeviceBind(sch, user_id, esn, dev_id)]

\* the devices row an INSERT with the bound values bind stores
DeviceRow(bind) == [c \in DevColumns |-> IF c \in DOMAIN bind THEN bind[c] ELSE None]

\* the store takes the INSERT: every NOT NULL column without a default gets a
\* value, the id is new, and (type, external_id) stays unique where enforced
DeviceInsertOk(sch, rows, bind) ==
    /\ \A c \in sch.cols :
         (sch.cons[c].is_nullable = "NO" /\ sch.cons[c].column_default = None)
         => (c \in DOMAIN bind /\ bind[c] # None)
    /\ \A i \in 1..Len(rows) : rows[i].id # bind["id"]
    /\ sch.uniq =>
         \A i \in 1..Len(rows) :
            ~(/\ rows[i].type # None /\ rows[i].external_id # None
              /\ rows[i].type = DeviceRow(bind).type
              /\ rows[i].external_id = DeviceRow(bind).external_id)

(***************************************************************************)
(* The feed payloads the parsers are applied to.                           *)
(***************************************************************************)
GoodCoords == ("latitude" :> Num(3)) @@ ("longitude" :> Num(7))
FieldVals == {None, Num(0), Num(7), Str(""), Str(" "), Str("abc"), Str("7"), Str(" 7 ")}
LatKeys == {"latitude", "lat"}
LonKeys == {"longitude", "lng", "lon"}
ExtraKeys == {"altitude", "alt", "speed", "batteryState", "battery", "messageType",
              "type", "esn", "messengerId", "id", "messageId"}
UnixVals == {None, Num(0), Num(5), Str("0"), Str("5"), Str(" 7 "), Str("abc"), Str("1e1"), Str("")}
DateVals == {None, Str("1970-01-01T00:01:40+0000"), Str("1970-01-01T00:01:40.250+0000"),
             Str("1970-01-01 00:01:40+00:00"), Str("abc"), Num(7)}

\* messages that vary one coordinate field (or both aliases of latitude)
CoordProbes ==
    { Dict((k :> v) @@ ("longitude" :> Num(7))) : k \in LatKeys, v \in FieldVals } \cup
    { Dict(("latitude" :> Num(3)) @@ (k :> v)) : k \in LonKeys, v \in FieldVals } \cup
    { Dict(("latitude" :> v1) @@ ("lat" :> v2) @@ ("longitude" :> Num(7))) :
        v1 \in {None, Num(0), Str("")}, v2 \in {None, Num(0), Num(3)} } \cup
    { Dict("longitude" :> Num(7)), Dict("latitude" :> Num(3)), Dict(<<>>) }
\* messages with coordinates that vary one other field
ExtraProbes == { Dict((k :> v) @@ GoodCoords) : k \in ExtraKeys, v \in FieldVals }
\* messages with coordinates that vary unixTime and dateTime/time
TimeProbes ==
    { Dict(("unixTime" :> u) @@ (dk :> d) @@ GoodCoords) :
        u \in UnixVals, dk \in {"dateTime", "time"}, d \in DateVals } \cup
    { Dict(("unixTime" :> u) @@ GoodCoords) : u \in UnixVals } \cup
    { Dict((dk :> d) @@ GoodCoords) : dk \in {"dateTime", "time"}, d \in DateVals }
Probes == CoordProbes \cup ExtraProbes \cup TimeProbes

\* ordinary messages that fill the rest of a payload
Fillers ==
    { Dict(("latitude" :> Num(3)) @@ ("longitude" :> Num(7)) @@ ("unixTime" :> Num(5)) @@ ("esn" :> Str("A"))),
      Dict(("lat" :> Str("7")) @@ ("lng" :> Str("3")) @@ ("id" :> Str("m1"))),
      Dict(("esn" :> Str("A")) @@ ("messageType" :> Str("STATUS"))) }

\* message lists of up to MaxMsgs messages with at most one probe
ItemLists ==
    UNION { [1..n -> Fillers] : n \in 0..MaxMsgs } \cup
    UNION { { [s EXCEPT ![i] = p] : s \in [1..n -> Fillers], i \in 1..n, p \in Probes } :
            n \in 1..MaxMsgs }

\* the documented nesting of the JSON feed
Wrap(items) ==
    Dict("response" :> Dict("feedMessageResponse" :> Dict("messages" :> Dict("message" :> items))))

\* the other nestings parse_spot_json probes, and payloads without messages
ShapePayloads ==
    LET one == CHOOSE f \in Fillers : "unixTime" \in DOMAIN f.v
        two == List(<<one, one>>)
    IN  { Wrap(one), Wrap(None), Wrap(Num(7)), Wrap(Str("")), Wrap(Str("abc")), Wrap(List(<<Num(7)>>)),
          Dict("feedMessageResponse" :> Dict("messages" :> Dict("message" :> two))),
          Dict("response" :> Dict("messages" :> Dict("message" :> two))),
          Dict("response" :> Dict("feedMessageResponse" :> Dict("messages" :> two))),
          Dict("response" :> Dict("feedMessageResponse" :> Dict("message" :> two))),
          Dict("response" :> Dict("feedMessageResponse" :> Dict("messages" :> None))),
          Dict("response" :> Dict("errors" :> Dict("error" :> Str("abc")))),
          Dict("response" :> Str("abc")),
          Dict("message" :> two),
          List(<<one>>) }

JsonPayloads == { Wrap(List(l)) : l \in ItemLists } \cup ShapePayloads

\* an XML element carries text or no text, never a number
IsXmlMessage(m) == \A k \in DOMAIN m.v : m.v[k].t \in {"str", "none"}
XmlLists == { l \in ItemLists : \A i \in 1..Len(l) : IsXmlMessage(l[i]) }
XmlDocs ==
    { [wellformed |-> TRUE, msgs |-> l] : l \in XmlLists } \cup
    { [wellformed |-> FALSE, msgs |-> <<>>] }

(***************************************************************************)
(* State.                                                                  *)
(***************************************************************************)
VARIABLES
    pIn,       \* the payload handed to a parser: [fmt, data]
    pOut,      \* what the parser did: [ran, raised, items]
    fPc,       \* fetch_spot_messages: "start", "fallback" (JSON not accepted), "done"
    fJson,     \* the outcome of the request to the JSON endpoint
    fXml,      \* the outcome of the request to the XML endpoint
    fReqs,     \* the endpoints requested so far, in order
    fRes,      \* what fetch_spot_messages returned or raised
    schema,    \* the live schema: [dev, lp, tracks, tp]
    committed, \* the committed rows of each table, in the store's scan order
    pending,   \* the rows the open transaction of the session has written
    sess,      \* the request's Session: "open" or "closed"
    nextId,    \* the number of the next uuid4()
    rIn,       \* the input of the request
    rPc,       \* where the request handler is
    rLoc,      \* the locals of the request handler
    rOut,      \* the response of the request
    rStmts,    \* the INSERT statements the request executed, in order
    calls,     \* the calls of ensure_spot_device_for_user made so far
    race       \* two concurrent imports: per import [pc, dev, bind, wrote, status]

parseVars == <<pIn, pOut>>
fetchVars == <<fPc, fJson, fXml, fReqs, fRes>>
dbVars == <<schema, committed, pending, sess, nextId>>
reqVars == <<rIn, rPc, rLoc, rOut, rStmts>>
vars == <<pIn, pOut, fPc, fJson, fXml, fReqs, fRes, schema, committed, pending, sess,
          nextId, rIn, rPc, rLoc, rOut, rStmts, calls, race>>

\* the values of the variables a specification does not use
NoOutcome == [exc |-> FALSE, status |-> 0]
NoResult == [state |-> "none"]
NoTables == [devices |-> <<>>, live_positions |-> <<>>, tracks |-> <<>>, track_points |-> <<>>]
NoDevSchema == DevSchema({"id"}, {}, <<>>, {}, FALSE)
NoLpSchema == [cols |-> {}]
NoTableSchema == [cols |-> {}]
ParseIdle == pIn = [fmt |-> "none"] /\ pOut = [ran |-> FALSE, raised |-> FALSE, items |-> <<>>]
FetchIdle ==
    /\ fPc = "idle" /\ fJson = NoOutcome /\ fXml = NoOutcome
    /\ fReqs = <<>> /\ fRes = NoResult
DbIdle ==
    /\ schema = [dev |-> NoDevSchema, lp |-> NoLpSchema, tracks |-> NoTableSchema, tp |-> NoTableSchema]
    /\ committed = NoTables /\ pending = NoTables /\ sess = "closed" /\ nextId = 1
ReqIdle ==
    /\ rIn = [kind |-> "none"] /\ rPc = "idle" /\ rLoc = [x |-> 0]
    /\ rOut = [status |-> 0] /\ rStmts = <<>>
NoRace == [x |-> 0]
DevIdle == calls = <<>> /\ race = NoRace

NotRun == [ran |-> FALSE, raised |-> FALSE, items |-> <<>>]
Ran(r) == [ran |-> TRUE, raised |-> r.raised, items |-> r.items]

(***************************************************************************)
(* The parsers applied to every payload of the bounded sets.               *)
(***************************************************************************)
InitParse ==
    /\ pIn \in { [fmt |-> "json", data |-> d] : d \in JsonPayloads } \cup
               { [fmt |-> "xml", data |-> d] : d \in XmlDocs }
    /\ pOut = NotRun
    /\ FetchIdle /\ DbIdle /\ ReqIdle /\ DevIdle

ParseJson ==
    /\ pIn.fmt = "json" /\ ~pOut.ran
    /\ pOut' = Ran(parse_spot_json(pIn.data))
    /\ UNCHANGED <<pIn, race, fetchVars, dbVars, reqVars, calls>>

ParseXml ==
    /\ pIn.fmt = "xml" /\ ~pOut.ran
    /\ pOut' = Ran(parse_spot_xml(pIn.data))
    /\ UNCHANGED <<pIn, race, fetchVars, dbVars, reqVars, calls>>

NextParse == ParseJson \/ ParseXml

SpecParse == InitParse /\ [][NextParse]_vars

(***************************************************************************)
(* Claims about feed normalisation (checked under SpecParse).              *)
(***************************************************************************)
\* the payload follows the documented nesting and holds a list of messages
IsDoc(p) ==
    /\ p.t = "dict" /\ "response" \in DOMAIN p.v
    /\ p.v["response"].t = "dict" /\ "feedMessageResponse" \in DOMAIN p.v["response"].v
    /\ LET fmr == p.v["response"].v["feedMessageResponse"]
       IN  /\ fmr.t = "dict" /\ "messages" \in DOMAIN fmr.v
           /\ fmr.v["messages"].t = "dict" /\ "message" \in DOMAIN fmr.v["messages"].v
           /\ fmr.v["messages"].v["message"].t = "list"
           /\ \A i \in 1..Len(fmr.v["messages"].v["message"].l) :
                 fmr.v["messages"].v["message"].l[i].t = "dict"
\* the messages of the parser's input, in input order
InMsgs ==
    IF pIn.fmt = "xml" THEN pIn.data.msgs
    ELSE IF IsDoc(pIn.data)
         THEN pIn.data.v["response"].v["feedMessageResponse"].v["messages"].v["message"].l
         ELSE <<>>
InHasMsgList == IF pIn.fmt = "xml" THEN pIn.data.wellformed ELSE IsDoc(pIn.data)

\* a legal coordinate value: a number, or a text that denotes one
IsCoordValue(x) == x.t = "num" \/ (x.t = "str" /\ x.s \in DOMAIN FloatTable)
CoordValue(x) == IF x.t = "num" THEN x.n ELSE FloatTable[x.s]
\* a field given no value: missing, null or empty
NoValue(m, k) == k \notin DOMAIN m.v \/ m.v[k] = None \/ m.v[k] = Str("")
\* the message carries a coordinate under exactly one alias of keys
CoordKey(m, keys) == CHOOSE k \in keys : ~NoValue(m, k)
HasCoord(m, keys) ==
    /\ Cardinality({k \in keys : ~NoValue(m, k)}) = 1
    /\ IsCoordValue(m.v[CoordKey(m, keys)])
LacksCoord(m, keys) == \A k \in keys : NoValue(m, k)
WellFormed(m) == HasCoord(m, LatKeys) /\ HasCoord(m, LonKeys)
MissingCoord(m) ==
    /\ LacksCoord(m, LatKeys) \/ LacksCoord(m, LonKeys)
    /\ LacksCoord(m, LatKeys) \/ HasCoord(m, LatKeys)
    /\ LacksCoord(m, LonKeys) \/ HasCoord(m, LonKeys)
\* the (lat, lon) pairs of the well-formed messages of ms, in order
RECURSIVE CoordsOf(_)
CoordsOf(ms) ==
    IF ms = <<>> THEN <<>>
    ELSE IF WellFormed(Head(ms))
         THEN << <<CoordValue(Head(ms).v[CoordKey(Head(ms), LatKeys)]),
                   CoordValue(Head(ms).v[CoordKey(Head(ms), LonKeys)])>> >> \o CoordsOf(Tail(ms))
         ELSE CoordsOf(Tail(ms))

\* C8: a JSON payload whose messages each either carry a latitude and a
\* longitude value (0 included, under any alias) or lack one of them is
\* normalised to exactly the messages that carry both, in input order, lat
\* from the latitude field and lon from the longitude field; the number of
\* omitted messages is the number of messages lacking a coordinate.
C8_NPositionsReturned ==
    ( /\ pIn.fmt = "json" /\ pOut.ran /\ ~pOut.raised /\ InHasMsgList
      /\ \A i \in 1..Len(InMsgs) : WellFormed(InMsgs[i]) \/ MissingCoord(InMsgs[i]) )
    => /\ Len(pOut.items) = Len(CoordsOf(InMsgs))
       /\ Len(InMsgs) - Len(pOut.items)
            = Cardinality({i \in 1..Len(InMsgs) : MissingCoord(InMsgs[i])})
       /\ \A i \in 1..Len(pOut.items) :
            /\ pOut.items[i].lat = Num(CoordsOf(InMsgs)[i][1])
            /\ pOut.items[i].lon = Num(CoordsOf(InMsgs)[i][2])

\* unixTime is a valid integer, as a number or as a numeric text
ValidUnix(m) ==
    /\ "unixTime" \in DOMAIN m.v
    /\ m.v["unixTime"].t = "num" \/ (m.v["unixTime"].t = "str" /\ m.v["unixTime"].s \in DOMAIN IntTable)
UnixValue(m) ==
    IF m.v["unixTime"].t = "num" THEN m.v["unixTime"].n ELSE IntTable[m.v["unixTime"].s]

\* C9: every emitted message (JSON or XML) whose unixTime is a valid integer,
\* 0 included, carries that epoch second as its timestamp, whatever its
\* dateTime/time field holds.
C9_UnixTimeWins ==
    (pOut.ran /\ ~pOut.raised /\ InHasMsgList /\ Len(pOut.items) = Len(InMsgs))
    => \A i \in 1..Len(InMsgs) :
         ValidUnix(InMsgs[i]) => pOut.items[i].ts = Dt(UnixValue(InMsgs[i]))

\* C10: whatever the value of a field of a message, the parsers raise no
\* error, and a message that carries both coordinates is emitted.
C10_ExtractionNeverRaises ==
    (pOut.ran /\ InHasMsgList)
    => /\ ~pOut.raised
       /\ Len(pOut.items) <= Len(InMsgs)
       /\ (\A i \in 1..Len(InMsgs) : \A k \in DOMAIN GoodCoords :
              k \in DOMAIN InMsgs[i].v /\ InMsgs[i].v[k] = GoodCoords[k])
          => Len(pOut.items) = Len(InMsgs)

(***************************************************************************)
(* spot.py: fetch_spot_messages, one step per request it awaits.           *)
(***************************************************************************)
\* `rj.headers.get("content-type", "").lower().find("json") >= 0` for the
\* content types of the model ("" is a response without the header)
ContentTypes == {"application/json", "Application/JSON;charset=UTF-8", "text/xml", ""}
HasJson(ctype) == ctype \in {"application/json", "Application/JSON;charset=UTF-8"}

\* the response statuses of the model; raise_for_status() raises on an error status
Statuses == {200, 204, 404, 503}
IsErrorStatus(st) == st >= 400

\* response bodies of the JSON endpoint: valid is whether rj.json() decodes it
FetchMsgs ==
    [ good |-> Dict(("latitude" :> Num(3)) @@ ("longitude" :> Num(7)) @@ ("unixTime" :> Num(5)) @@ ("esn" :> Str("A"))),
      text |-> Dict(("lat" :> Str("7")) @@ ("lng" :> Str("3")) @@ ("id" :> Str("m1"))),
      beat |-> Dict(("esn" :> Str("A")) @@ ("messageType" :> Str("STATUS"))),
      batt |-> Dict(("latitude" :> Num(3)) @@ ("longitude" :> Num(7)) @@ ("battery" :> Num(7))) ]
JsonBodies ==
    { [valid |-> FALSE, data |-> None] } \cup
    { [valid |-> TRUE, data |-> d] :
        d \in { Wrap(List(<<>>)), Wrap(List(<<FetchMsgs.good>>)),
                Wrap(List(<<FetchMsgs.text, FetchMsgs.good>>)),
                Wrap(List(<<FetchMsgs.beat>>)), Wrap(List(<<FetchMsgs.batt>>)),
                Dict("response" :> Dict("errors" :> Dict("error" :> Str("abc")))),
                List(<<FetchMsgs.good>>) } }
JsonOutcomes ==
    { [exc |-> TRUE, status |-> 0, ctype |-> "", body |-> [valid |-> FALSE, data |-> None]] } \cup
    { [exc |-> FALSE, status |-> st, ctype |-> ct, body |-> b] :
        st \in Statuses, ct \in ContentTypes, b \in JsonBodies }

\* response bodies of the XML endpoint
XmlBodies ==
    { [wellformed |-> FALSE, msgs |-> <<>>], [wellformed |-> TRUE, msgs |-> <<>>],
      [wellformed |-> TRUE, msgs |-> <<FetchMsgs.text>>],
      [wellformed |-> TRUE, msgs |-> <<FetchMsgs.beat, FetchMsgs.text>>] }
XmlOutcomes ==
    { [exc |-> TRUE, status |-> 0, doc |-> [wellformed |-> FALSE, msgs |-> <<>>]] } \cup
    { [exc |-> FALSE, status |-> st, doc |-> d] : st \in Statuses, d \in XmlBodies }

\* an acceptance test that takes any non-error status for 200
JsonAcceptedAnyStatus(o) ==
    /\ ~o.exc
    /\ ~IsErrorStatus(o.status) /\ HasJson(o.ctype)
    /\ o.body.valid
    /\ ~parse_spot_json(o.body.data).raised
    /\ parse_spot_json(o.body.data).items # <<>>

\* the JSON attempt returns: status 200, a JSON content type, a body that
\* decodes and normalises without an exception, and a non-empty list
JsonAccepted(o) ==
    /\ ~o.exc
    /\ o.status = 200 /\ HasJson(o.ctype)
    /\ o.body.valid
    /\ ~parse_spot_json(o.body.data).raised
    /\ parse_spot_json(o.body.data).items # <<>>

\* the XML step: the request, raise_for_status(), parse_spot_xml
XmlResult(o) ==
    IF o.exc THEN [state |-> "error", kind |-> "transport", status |-> 0]
    ELSE IF IsErrorStatus(o.status) THEN [state |-> "error", kind |-> "status", status |-> o.status]
    ELSE IF parse_spot_xml(o.doc).raised THEN [state |-> "error", kind |-> "parse", status |-> 0]
    ELSE [state |-> "ok", src |-> "xml", items |-> parse_spot_xml(o.doc).items]

InitFetch ==
    /\ ParseIdle /\ DbIdle /\ ReqIdle /\ DevIdle
    /\ fPc = "start" /\ fJson = NoOutcome /\ fXml = NoOutcome
    /\ fReqs = <<>> /\ fRes = NoResult

\* the request to <base>.json and what follows it inside the try block
FetchJson ==
    /\ fPc = "start"
    /\ \E o \in JsonOutcomes :
         /\ fJson' = o
         /\ fReqs' = Append(fReqs, "json")
         /\ IF JsonAccepted(o)
            THEN /\ fRes' = [state |-> "ok", src |-> "json", items |-> parse_spot_json(o.body.data).items]
                 /\ fPc' = "done"
            ELSE /\ fRes' = fRes
                 /\ fPc' = "fallback"
    /\ UNCHANGED <<fXml, parseVars, race, dbVars, reqVars, calls>>

\* the request to <base>.xml
FetchXml ==
    /\ fPc = "fallback"
    /\ \E o \in XmlOutcomes :
         /\ fXml' = o
         /\ fReqs' = Append(fReqs, "xml")
         /\ fRes' = XmlResult(o)
    /\ fPc' = "done"
    /\ UNCHANGED <<fJson, parseVars, race, dbVars, reqVars, calls>>

NextFetch == FetchJson \/ FetchXml

SpecFetch == InitFetch /\ [][NextFetch]_vars

(***************************************************************************)
(* Claims about the feed fetch (checked under SpecFetch).                  *)
(***************************************************************************)
\* the JSON attempt ended with status 200, a JSON content type and a body
\* that normalises to at least one record
JsonAttemptGood ==
    /\ ~fJson.exc /\ fJson.status = 200
    /\ fJson.ctype \in {"application/json", "Application/JSON;charset=UTF-8"}
    /\ fJson.body.valid
    /\ ~parse_spot_json(fJson.body.data).raised
    /\ Len(parse_spot_json(fJson.body.data).items) >= 1
\* the XML step failed: transport, error status or a body that does not parse
XmlStepFailed == fXml.exc \/ fXml.status >= 400 \/ ~fXml.doc.wellformed

\* C3: the JSON endpoint is requested first and its result is returned only
\* for a 200 response with a JSON content type that normalises to at least
\* one record, and then the XML endpoint is never requested; in every other
\* outcome exactly one XML request follows the JSON request, its body is
\* normalised, and the fetch fails only if the XML step fails.
C3_JsonThenXmlFallback ==
    /\ fReqs \in {<<>>, <<"json">>, <<"json", "xml">>}
    /\ fPc = "fallback" => fReqs = <<"json">> /\ ~JsonAttemptGood
    /\ fPc = "done" =>
         IF JsonAttemptGood
         THEN /\ fReqs = <<"json">>
              /\ fRes = [state |-> "ok", src |-> "json",
                          items |-> parse_spot_json(fJson.body.data).items]
         ELSE /\ fReqs = <<"json", "xml">>
              /\ (fRes.state = "error") = XmlStepFailed
              /\ fRes.state = "ok" =>
                    fRes.src = "xml" /\ fRes.items = parse_spot_xml(fXml.doc).items

\* a JSON response with an error status was followed by one XML request
\* whose body was normalised
C3_Witness ==
    /\ fPc = "done" /\ ~fJson.exc /\ fJson.status = 404
    /\ fReqs = <<"json", "xml">>
    /\ fRes.state = "ok" /\ Len(fRes.items) = 1

(***************************************************************************)
(* insert_positions: the live_positions schema, the rows and the INSERT.   *)
(***************************************************************************)
DefaultDim == 2
DefaultSrid == 4326

\* get_geom_info: meta is the table's row of geometry_columns, None when
\* there is no such row, Raised when the query itself fails (`except
\* Exception: pass` then falls through to the default)
get_geom_info(meta) ==
    IF meta = None \/ meta = Raised THEN [dim |-> DefaultDim, srid |-> DefaultSrid]
    ELSE [dim |-> IF Truthy(meta.dim) THEN meta.dim.n ELSE DefaultDim,
          srid |-> IF Truthy(meta.srid) THEN meta.srid.n ELSE DefaultSrid]

\* the ways a live_positions table declares device_id
DeviceKinds == {"absent", "nullable", "required", "defaulted"}

\* information_schema and geometry_columns for a live_positions table with
\* the columns base (and device_id, declared as kind says)
LpSchema(base, kind, meta, batteryType) ==
    [ cols |-> base \cup (IF kind = "absent" THEN {} ELSE {"device_id"}),
      cons |-> [c \in (IF kind = "absent" THEN {} ELSE {"device_id"}) |->
                  [is_nullable |-> IF kind = "nullable" THEN "YES" ELSE "NO",
                   column_default |-> IF kind = "defaulted" THEN Str("gen_random_uuid()") ELSE None]],
      types |-> [c \in base \cap {"battery"} |-> batteryType],
      meta |-> meta ]

\* device_required
DeviceRequired(lp) ==
    /\ "device_id" \in lp.cols
    /\ lp.cons["device_id"].is_nullable = "NO"
    /\ ~Truthy(lp.cons["device_id"].column_default)

\* a point expression with latitude first
point_sql_lat_first(dim) == IF dim >= 3 THEN <<"lat", "lon", "z">> ELSE <<"lat", "lon">>

\* the argument names of ST_MakePoint in point_sql, in order; the third is
\* wrapped in COALESCE(:z, 0.0)
point_sql(dim) == IF dim >= 3 THEN <<"lon", "lat", "z">> ELSE <<"lon", "lat">>

\* the esn of the first message, whether it has one or not
esn_of_first_message(msgs) == IF msgs = <<>> THEN None ELSE msgs[1].esn

\* `next((m.get("esn") for m in msgs if m.get("esn")), None)`
first_esn(msgs) ==
    LET hits == {i \in 1..Len(msgs) : Truthy(msgs[i].esn)}
    IN  IF hits = {} THEN None ELSE msgs[CHOOSE i \in hits : \A j \in hits : i <= j].esn

\* the per-message SELECT on devices is executed for the message m
MsgLookupRuns(lp, dev, m) ==
    /\ "device_id" \in lp.cols
    /\ {"provider", "external_id", "id"} \subseteq dev.cols
    /\ Truthy(m.esn)

\* the store cannot run the per-message SELECT: it names user_id, and
\* compares provider with the literal 'spot'
MsgLookupInvalid(dev) ==
    \/ "user_id" \notin dev.cols
    \/ /\ dev.types["provider"].dt = "USER-DEFINED"
       /\ \A i \in 1..Len(get_enum_labels(dev, dev.types["provider"].udt)) :
              get_enum_labels(dev, dev.types["provider"].udt)[i] # "spot"

\* the id the per-message SELECT returns, None if it is not run or finds none
MsgLookup(lp, dev, rows, user_id, m) ==
    IF MsgLookupRuns(lp, dev, m)
    THEN FirstId(rows, {i \in 1..Len(rows) :
             /\ rows[i].provider = Str("spot") /\ rows[i].external_id = m.esn
             /\ rows[i].user_id = Str(user_id)})
    ELSE None

\* `m["speed_kph"] / 3.6`, exact for the speeds of the model
KphToMps(n) == (n * 10) \div 36

\* the battery value bound for the column type ty
BatteryVal(ty, raw) ==
    IF ty.dt \in {"double precision", "real", "numeric"} \/ ty.udt \in {"float8", "float4", "numeric"}
    THEN IF raw = None THEN None
         ELSE IF raw.t = "str" /\ raw.s \in DOMAIN FloatTable THEN Num(FloatTable[raw.s])
         ELSE None
    ELSE raw

\* one entry of a row dict, present when cond holds
Field(cond, k, v) == IF cond THEN k :> v ELSE <<>>

\* the row dict built for the message m; dev_id is what the per-message
\* SELECT returned and default_device_id the device chosen for the batch
BuildRow(lp, user_id, m, dev_id, default_device_id) ==
    LET has_geom == "geom" \in lp.cols
        d == IF DeviceRequired(lp) /\ dev_id = None THEN default_device_id ELSE dev_id
    IN  Field("ts" \in lp.cols, "ts", m.ts)
        @@ Field("user_id" \in lp.cols, "user_id", Str(user_id))
        @@ Field(has_geom \/ "lat" \in lp.cols, "lat", m.lat)
        @@ Field(has_geom \/ "lon" \in lp.cols, "lon", m.lon)
        @@ Field(has_geom, "z", m.z)
        @@ Field(~has_geom /\ "lng" \in lp.cols, "lng", m.lon)
        @@ Field(~has_geom /\ "ele" \in lp.cols, "ele", m.z)
        @@ Field("speed_kph" \in lp.cols /\ m.speed_kph # None, "speed_kph", m.speed_kph)
        @@ Field("speed_kph" \notin lp.cols /\ "speed_mps" \in lp.cols /\ m.speed_kph # None,
                 "speed_mps", IF m.speed_kph = None THEN None ELSE Num(KphToMps(m.speed_kph.n)))
        @@ Field("battery" \in lp.cols, "battery",
                 IF "battery" \in lp.cols THEN BatteryVal(lp.types["battery"], m.battery) ELSE None)
        @@ Field("device_id" \in lp.cols /\ d # None, "device_id", d)
        @@ Field("raw" \in lp.cols, "raw", [msg_type |-> m.msg_type, esn |-> m.esn])

\* r.setdefault(c, None) for every column c of cs
SetDefaults(r, cs) == r @@ [c \in cs |-> None]

\* r.get(k)
RowGet(r, k) == IF k \in DOMAIN r THEN r[k] ELSE None

\* the scalar templates, in the order they are tried
template_opts ==
    << <<"user_id", "ts", "lat", "lon">>, <<"user_id", "ts", "lat", "lng">>,
       <<"ts", "lat", "lon">>, <<"ts", "lat", "lng">> >>

Range(sq) == {sq[i] : i \in 1..Len(sq)}

\* a choice that takes the first template without looking at the columns
FirstTemplateAny(opts, cols) == opts[1]

\* a choice that takes the last template that fits, not the first
LastTemplate(opts, cols) ==
    LET hits == {i \in 1..Len(opts) : Range(opts[i]) \subseteq cols}
    IN  IF hits = {} THEN <<>> ELSE opts[CHOOSE i \in hits : \A j \in hits : i >= j]

\* `next((tpl for tpl in opts if set(tpl).issubset(cols)), None)`
FirstTemplate(opts, cols) ==
    LET hits == {i \in 1..Len(opts) : Range(opts[i]) \subseteq cols}
    IN  IF hits = {} THEN <<>> ELSE opts[CHOOSE i \in hits : \A j \in hits : i <= j]

\* the columns of the geometry INSERT, geom last
GeomCols(lp, include_device) ==
    (IF "user_id" \in lp.cols THEN <<"user_id">> ELSE <<>>)
    \o (IF "ts" \in lp.cols THEN <<"ts">> ELSE <<>>)
    \o (IF include_device THEN <<"device_id">> ELSE <<>>)
    \o (IF "battery" \in lp.cols THEN <<"battery">> ELSE <<>>)
    \o (IF "speed_kph" \in lp.cols THEN <<"speed_kph">> ELSE <<>>)
    \o (IF "speed_mps" \in lp.cols THEN <<"speed_mps">> ELSE <<>>)
    \o <<"geom">>

\* what insert_positions does with the rows built for the batch: an error
\* before any INSERT, or the statement it executes
PlanPositions(lp, rows) ==
    LET include_device ==
            "device_id" \in lp.cols /\ \A i \in 1..Len(rows) : RowGet(rows[i], "device_id") # None
        template == FirstTemplate(template_opts, lp.cols)
        filled(cs) == [i \in 1..Len(rows) |-> SetDefaults(rows[i], cs)]
        usable(r) == RowGet(r, "lat") # None /\ RowGet(r, "lon") # None
    IN  IF DeviceRequired(lp) /\ ~include_device
        THEN [kind |-> "error", detail |-> [what |-> "device_id unresolved"]]
        ELSE IF "geom" \in lp.cols
        THEN [kind |-> "insert",
              stmt |-> [table |-> "live_positions",
                        cols |-> GeomCols(lp, include_device),
                        point |-> point_sql(get_geom_info(lp.meta).dim),
                        rows |-> SelectSeq(filled(Range(GeomCols(lp, include_device)) \ {"geom"}),
                                           usable)]]
        ELSE IF template = <<>>
        THEN [kind |-> "error",
              detail |-> [what |-> "schema unsupported", table |-> "live_positions", cols |-> lp.cols]]
        ELSE [kind |-> "insert",
              stmt |-> [table |-> "live_positions", cols |-> template, point |-> <<>>,
                        rows |-> filled(Range(template))]]

\* the point ST_MakePoint builds from the row r: COALESCE(:z, 0.0) for the
\* third argument
MakePoint(args, r) ==
    [k \in 1..Len(args) |-> IF k = 3 /\ r[args[k]] = None THEN Num(0) ELSE r[args[k]]]

\* the row the store keeps for the bound row r of the statement stmt
StoredRow(stmt, r) ==
    [c \in Range(stmt.cols) |-> IF c = "geom" THEN MakePoint(stmt.point, r) ELSE r[c]]

\* the store takes the live_positions row: a NOT NULL device_id without a
\* default gets a value, (device_id, ts) stays unique, and so does a
\* provider_msg_id that is not null
PositionInsertOk(lp, rows, row) ==
    /\ DeviceRequired(lp) => RowGet(row, "device_id") # None
    /\ \A i \in 1..Len(rows) :
         ~(/\ RowGet(row, "provider_msg_id") # None
           /\ RowGet(rows[i], "provider_msg_id") = RowGet(row, "provider_msg_id"))
    /\ \A i \in 1..Len(rows) :
         ~(/\ RowGet(row, "device_id") # None /\ RowGet(row, "ts") # None
           /\ RowGet(rows[i], "device_id") = RowGet(row, "device_id")
           /\ RowGet(rows[i], "ts") = RowGet(row, "ts"))

(***************************************************************************)
(* The session: db.commit(), db.rollback() and the close of get_db.        *)
(***************************************************************************)
\* the rows of table tbl the session's statements see
Visible(tbl) == committed[tbl] \o pending[tbl]

\* a session that commits each INSERT as it goes (what autocommit would do)
ExecuteAutocommit(com, pen, tbl, row) ==
    [committed |-> [com EXCEPT ![tbl] = Append(@, row)], pending |-> pen]

\* db.execute of an INSERT the store takes: on a session with
\* autocommit=False the row is written in the open transaction
Execute(com, pen, tbl, row) ==
    [committed |-> com, pending |-> [pen EXCEPT ![tbl] = Append(@, row)]]

\* db.rollback(): the rows written by the transaction are discarded
Rollback(com, pen) == [committed |-> com, pending |-> NoTables]

\* a close that lets the devices rows of the open transaction through
CloseKeepsDevices(com, pen) == [com EXCEPT !.devices = com.devices \o pen.devices]

\* a close that commits the open transaction instead of rolling it back
CloseCommits(com, pen) == [tbl \in DOMAIN com |-> com[tbl] \o pen[tbl]]

\* Session.close(): the transaction is rolled back, the committed rows stay
Close(com, pen) == com

\* db.commit(): the rows written by the transaction become committed
CommitAll == [tbl \in DOMAIN committed |-> committed[tbl] \o pending[tbl]]

(***************************************************************************)
(* ensure_spot_device_for_user called in succession on one session.        *)
(***************************************************************************)
\* the devices schemas: id plus any subset of the optional columns, the
\* columns type/provider/status being text or of a user-defined type with
\* one of four label lists (none for an enum without labels and for a type
\* that is no enum), every column nullable or every column NOT NULL without
\* a default; and a devices table without id
EnumLabelLists ==
    { <<"inreach", "spot", "other">>, <<"other", "SPOT", "Active">>, <<"inreach", "garmin">>, <<>> }
DevSchemasAll ==
    { DevSchema({"id"} \cup cs, {}, <<>>, nn, FALSE) :
        cs \in SUBSET DevOptional, nn \in {{}, DevColumns} } \cup
    { DevSchema({"id"} \cup cs, {"type", "provider", "status"}, ls, nn, FALSE) :
        cs \in SUBSET DevOptional, ls \in EnumLabelLists, nn \in {{}, DevColumns} } \cup
    { DevSchema({"user_id", "name"}, {}, <<>>, {}, FALSE),
      DevSchema({"id", "user_id", "type", "external_id"}, {"type"}, <<"spot", "inreach", "other">>,
                {"id", "user_id", "type", "external_id"}, TRUE) }

\* devices that exist before the request: of the user and of another user
KnownDevices ==
    { [user_id |-> "u1", type |-> "spot", provider |-> "spot", external_id |-> "A",
       name |-> "SPOT A", status |-> "active"],
      [user_id |-> "u2", type |-> "spot", provider |-> "spot", external_id |-> "A",
       name |-> "SPOT A", status |-> "active"],
      [user_id |-> "u1", type |-> "inreach", provider |-> "inreach", external_id |-> "Z",
       name |-> "My inReach", status |-> "active"] }

\* the row of the known device d, with id Uuid(k), in a table of schema sch:
\* a column the table lacks is null, an enum column holds one of its labels
StoredDevice(sch, d, k) ==
    [c \in DevColumns |->
        IF c = "id" THEN (IF "id" \in sch.cols THEN Uuid(k) ELSE None)
        ELSE IF c \notin sch.cols THEN None
        ELSE IF sch.types[c].dt = "USER-DEFINED"
             THEN EnumChoice(get_enum_labels(sch, sch.types[c].udt), d[c])
             ELSE Str(d[c])]

\* the devices tables of at most MaxInitDevices known devices, in any order,
\* that the store's uniqueness constraint admits
InitDeviceTables(sch) ==
    LET lists == UNION { {l \in [1..n -> KnownDevices] : \A i, j \in 1..n : i # j => l[i] # l[j]} :
                         n \in 0..MaxInitDevices }
        table(l) == [i \in 1..Len(l) |-> StoredDevice(sch, l[i], i)]
    IN  { table(l) : l \in { l \in lists :
            sch.uniq => \A i, j \in 1..Len(l) :
                i # j => <<table(l)[i].type, table(l)[i].external_id>>
                         # <<table(l)[j].type, table(l)[j].external_id>> } }

Esns == {None, Str("A"), Str("B")}

InitDevice ==
    /\ ParseIdle /\ FetchIdle /\ ReqIdle /\ race = NoRace
    /\ \E d \in DevSchemasAll :
         /\ schema = [dev |-> d, lp |-> NoLpSchema, tracks |-> NoTableSchema, tp |-> NoTableSchema]
         /\ \E t \in InitDeviceTables(d) :
              /\ committed = [NoTables EXCEPT !.devices = t]
              /\ nextId = Len(t) + 1
    /\ pending = NoTables
    /\ sess = "open"
    /\ \E e \in Esns : calls = <<[kind |-> "args", id |-> None, user_id |-> "u1", esn |-> e]>>

\* one call ensure_spot_device_for_user(db, user_id, esn) with the arguments
\* of the first entry of calls; the store may reject the INSERT
DeviceCall ==
    /\ sess = "open" /\ calls # <<>> /\ Len(calls) <= MaxCalls
    /\ LET r == ensure_spot_device_for_user(schema.dev, Visible("devices"),
                                            calls[1].user_id, calls[1].esn, Uuid(nextId))
       IN  IF r.kind = "create"
           THEN /\ nextId' = nextId + 1
                /\ \E taken \in {TRUE, FALSE} :
                     IF taken /\ DeviceInsertOk(schema.dev, Visible("devices"), r.bind)
                     THEN /\ committed' = Execute(committed, pending, "devices", DeviceRow(r.bind)).committed
                          /\ pending' = Execute(committed, pending, "devices", DeviceRow(r.bind)).pending
                          /\ calls' = Append(calls, [kind |-> "created", id |-> r.id, bind |-> r.bind])
                     ELSE /\ UNCHANGED <<committed, pending>>
                          /\ calls' = Append(calls, [kind |-> "rejected", id |-> None, bind |-> r.bind])
           ELSE /\ calls' = Append(calls, [kind |-> r.kind, id |-> r.id, bind |-> <<>>])
                /\ UNCHANGED <<committed, pending, nextId>>
    /\ UNCHANGED <<schema, sess, parseVars, race, fetchVars, reqVars>>

\* db.commit() between two calls
DeviceCommit ==
    /\ sess = "open" /\ calls # <<>> /\ pending # NoTables
    /\ committed' = CommitAll
    /\ pending' = NoTables
    /\ UNCHANGED <<schema, sess, nextId, calls, parseVars, race, fetchVars, reqVars>>

NextDevice == DeviceCall \/ DeviceCommit

SpecDevice == InitDevice /\ [][NextDevice]_vars

(***************************************************************************)
(* Claims about device resolution (checked under SpecDevice).              *)
(***************************************************************************)
\* the call returned a device id
Returned(c) == c.kind \in {"found", "created"}
\* the schema gives the resolver something to match on: a user_id column, a
\* name column, or provider and external_id with a provider value
Matchable ==
    \/ "user_id" \in schema.dev.cols
    \/ "name" \in schema.dev.cols
    \/ /\ {"provider", "external_id"} \subseteq schema.dev.cols
       /\ \/ schema.dev.types["provider"].dt # "USER-DEFINED"
          \/ Len(schema.dev.labels[schema.dev.types["provider"].udt]) > 0

\* C4 as stated: for every devices schema with an id column, two successive
\* calls with the same arguments return the same id and the second inserts
\* no row.
C4_IdempotentEverySchema ==
    \A i \in 2..(Len(calls) - 1) :
        (Returned(calls[i]) /\ Returned(calls[i + 1]))
        => (calls[i + 1].id = calls[i].id /\ calls[i + 1].kind = "found")

\* Where the schema is matchable, two successive calls that return agree and
\* the second one finds the device.
IdempotentWhereMatchable ==
    Matchable =>
    \A i \in 2..(Len(calls) - 1) :
        (Returned(calls[i]) /\ Returned(calls[i + 1]))
        => (calls[i + 1].id = calls[i].id /\ calls[i + 1].kind = "found")

\* the call executed INSERT INTO devices
Inserted(c) == c.kind \in {"created", "rejected"}
\* the columns of the devices table that are NOT NULL without a default
RequiredDevCols ==
    {c \in schema.dev.cols :
        schema.dev.cons[c].is_nullable = "NO" /\ schema.dev.cons[c].column_default = None}
\* the bound values bind name every required column with a non-null value
Populated(bind) == \A c \in RequiredDevCols : c \in DOMAIN bind /\ bind[c] # None

\* C11: every INSERT INTO devices names every column that is NOT NULL
\* without a default and binds a non-null value to it, for every devices
\* schema and every label list.
C11_RequiredColumnsPopulated ==
    \A i \in 2..Len(calls) : Inserted(calls[i]) => Populated(calls[i].bind)

\* every user-defined column of the table has at least one label
Labelled ==
    \A c \in schema.dev.cols :
        schema.dev.types[c].dt = "USER-DEFINED"
        => Len(get_enum_labels(schema.dev, schema.dev.types[c].udt)) > 0

\* Where every user-defined column has a label, the INSERT populates every
\* required column.
PopulatedWhereLabelled ==
    Labelled => \A i \in 2..Len(calls) : Inserted(calls[i]) => Populated(calls[i].bind)

(***************************************************************************)
(* POST /spot/import: one request on its own session.                      *)
(***************************************************************************)
\* normalised messages as the parsers return them
PosA ==
    [lat |-> Num(3), lon |-> Num(7), z |-> None, ts |-> Dt(5), speed_kph |-> Num(36),
     battery |-> Str("7"), msg_type |-> Str("TRACK"), esn |-> Str("A"), message_id |-> Str("7")]
PosB ==
    [lat |-> Num(5), lon |-> Num(10), z |-> Num(7), ts |-> Now, speed_kph |-> None,
     battery |-> Str("GOOD"), msg_type |-> None, esn |-> None, message_id |-> None]
Batches == UNION { [1..n -> {PosA, PosB}] : n \in 0..MaxBatch }

\* what fetch_spot_messages gives the endpoint
FetchResults ==
    { [state |-> "ok", src |-> "json", items |-> b] : b \in Batches } \cup
    { [state |-> "error", kind |-> "status", status |-> 404],
      [state |-> "error", kind |-> "transport", status |-> 0] }

NumericType == [dt |-> "double precision", udt |-> "float8"]
TextType == [dt |-> "text", udt |-> "text"]
GeomDims == {2, 3, 4}
GeomMetas == {None, Raised} \cup { [dim |-> Num(d), srid |-> Num(DefaultSrid)] : d \in GeomDims }

\* the live_positions tables: with a geometry column, with the columns of a
\* scalar template, with neither
LpGeomBases ==
    { {"ts", "geom"}, {"user_id", "ts", "battery", "speed_kph", "raw", "geom", "lat", "lon"},
      {"id", "ts", "geom", "battery", "extra", "provider_msg_id"} }
LpScalarBases ==
    { {"user_id", "ts", "lat", "lon", "ele", "speed_mps"}, {"user_id", "ts", "lat", "lng"},
      {"ts", "lat", "lon", "battery"}, {"ts", "lat", "lng"} }
LpOtherBases == { {"ts", "lat"}, {"id", "latitude", "longitude"} }
LpSchemas ==
    { LpSchema(b, k, m, NumericType) : b \in LpGeomBases, k \in DeviceKinds, m \in GeomMetas } \cup
    { LpSchema(b, k, None, TextType) : b \in LpScalarBases \cup LpOtherBases, k \in DeviceKinds }

\* the devices tables an import meets
ImportDevSchemas ==
    { DevSchema({"id", "user_id", "type", "external_id"}, {"type"}, <<"inreach", "spot", "other">>,
                {"id", "user_id", "type", "external_id"}, TRUE),
      DevSchema({"id", "user_id", "provider", "external_id", "name"}, {}, <<>>, {}, FALSE),
      DevSchema({"id", "provider", "external_id"}, {"provider"}, <<"inreach", "garmin">>, {}, FALSE),
      DevSchema({"id"}, {}, <<>>, {}, FALSE),
      DevSchema({"user_id", "name"}, {}, <<>>, {}, FALSE) }
ImportDeviceTables(d) == { t \in InitDeviceTables(d) : Len(t) <= 1 }

\* the live_positions rows an earlier import of the one-message feed <<m>>
\* has committed, when the devices table t already held its device
EarlierImport(lp, d, t, user_id, m) ==
    LET r == ensure_spot_device_for_user(d, t, user_id, m.esn, None)
        row == BuildRow(lp, user_id, m, MsgLookup(lp, d, t, user_id, m),
                        IF DeviceRequired(lp) THEN r.id ELSE None)
        plan == PlanPositions(lp, <<row>>)
    IN  IF /\ DeviceRequired(lp) => r.kind = "found"
           /\ MsgLookupRuns(lp, d, m) => ~MsgLookupInvalid(d)
           /\ plan.kind = "insert"
           /\ PositionInsertOk(lp, <<>>, plan.stmt.rows[1])
        THEN <<StoredRow(plan.stmt, plan.stmt.rows[1])>>
        ELSE <<>>

InitImport ==
    /\ ParseIdle /\ FetchIdle /\ DevIdle
    /\ \E lp \in LpSchemas :
       \E d \in IF "device_id" \in lp.cols THEN ImportDevSchemas ELSE {NoDevSchema} :
       \E t \in IF "device_id" \in lp.cols THEN ImportDeviceTables(d) ELSE {<<>>} :
       \E f \in FetchResults :
       \E old \in {<<>>, EarlierImport(lp, d, t, "u1", PosA)} :
         /\ schema = [dev |-> d, lp |-> lp, tracks |-> NoTableSchema, tp |-> NoTableSchema]
         /\ committed = [NoTables EXCEPT !.devices = t, !.live_positions = old]
         /\ nextId = Len(t) + 1
         /\ rIn = [kind |-> "import", user_id |-> "u1", fetch |-> f,
                   before |-> [NoTables EXCEPT !.devices = t, !.live_positions = old]]
    /\ pending = NoTables
    /\ sess = "open"
    /\ rPc = "start"
    /\ rLoc = [default_device_id |-> None, stmt |-> <<>>, i |-> 0, planned |-> FALSE,
               introspected |-> [live_positions |-> 0, devices |-> 0]]
    /\ rOut = [status |-> 0]
    /\ rStmts = <<>>

\* HTTPException(status_code, detail), or an exception nothing catches
Fail(status, detail) == [status |-> status, detail |-> detail]

\* the statement s as the log keeps it: taken counts the rows the store took
Logged(s) == s @@ [taken |-> 0]
TookRow(stmts) == [stmts EXCEPT ![Len(stmts)].taken = @ + 1]

\* `msgs = await fetch_spot_messages(...)` and the two early exits
ImportFetch ==
    /\ rIn.kind = "import" /\ rPc = "start"
    /\ IF rIn.fetch.state = "error"
       THEN /\ rOut' = Fail(IF rIn.fetch.kind = "status" THEN rIn.fetch.status ELSE 502,
                            [what |-> "SPOT fetch"])
            /\ rPc' = "close"
       ELSE IF rIn.fetch.items = <<>>
       THEN /\ rOut' = [status |-> 200, imported |-> 0, reason |-> "no messages"]
            /\ rPc' = "close"
       ELSE /\ rPc' = "resolve"
            /\ rOut' = rOut
    /\ UNCHANGED <<rIn, rLoc, rStmts, dbVars, parseVars, race, fetchVars, calls>>

\* insert_positions up to the choice of the default device
ImportResolve ==
    /\ rIn.kind = "import" /\ rPc = "resolve"
    /\ IF ~DeviceRequired(schema.lp)
       THEN /\ rPc' = "rows"
            /\ UNCHANGED <<rLoc, rOut, rStmts, committed, pending, nextId>>
       ELSE LET r == ensure_spot_device_for_user(schema.dev, Visible("devices"), rIn.user_id,
                                                 first_esn(rIn.fetch.items), Uuid(nextId))
                s == [table |-> "devices", cols |-> DOMAIN r.bind, point |-> <<>>, rows |-> <<r.bind>>]
            IN  CASE r.kind = "error" ->
                        /\ rOut' = Fail(500, [what |-> "devices table missing 'id'"])
                        /\ rPc' = "close"
                        /\ UNCHANGED <<rLoc, rStmts, committed, pending, nextId>>
                  [] r.kind = "found" ->
                        /\ rLoc' = [rLoc EXCEPT !.default_device_id = r.id]
                        /\ rPc' = "rows"
                        /\ UNCHANGED <<rOut, rStmts, committed, pending, nextId>>
                  [] r.kind = "create" ->
                        /\ nextId' = nextId + 1
                        /\ \E taken \in {TRUE, FALSE} :
                             IF taken /\ DeviceInsertOk(schema.dev, Visible("devices"), r.bind)
                             THEN /\ committed' = Execute(committed, pending, "devices", DeviceRow(r.bind)).committed
                                  /\ pending' = Execute(committed, pending, "devices", DeviceRow(r.bind)).pending
                                  /\ rStmts' = TookRow(Append(rStmts, Logged(s)))
                                  /\ rLoc' = [rLoc EXCEPT !.default_device_id = r.id]
                                  /\ rPc' = "rows"
                                  /\ rOut' = rOut
                             ELSE /\ rStmts' = Append(rStmts, Logged(s))
                                  /\ rOut' = Fail(500, [what |-> "INSERT INTO devices"])
                                  /\ rPc' = "close"
                                  /\ UNCHANGED <<rLoc, committed, pending>>
    /\ UNCHANGED <<rIn, schema, sess, parseVars, race, fetchVars, calls>>

\* the information_schema queries insert_positions has issued when its loop
\* over the messages ends, per table: get_columns, get_column_types and
\* get_column_constraints of live_positions; the same three of devices in
\* ensure_spot_device_for_user; and get_columns(db, "devices") inside the
\* loop, for every message, when live_positions has device_id
SchemaQueries(lp, msgs) ==
    [live_positions |-> 3,
     devices |-> (IF DeviceRequired(lp) THEN 3 ELSE 0)
                 + (IF "device_id" \in lp.cols THEN Len(msgs) ELSE 0)]

\* the loop over the messages and the choice of the statement
ImportPlan ==
    /\ rIn.kind = "import" /\ rPc = "rows"
    /\ LET msgs == rIn.fetch.items
           runs == \E i \in 1..Len(msgs) : MsgLookupRuns(schema.lp, schema.dev, msgs[i])
           rows == [i \in 1..Len(msgs) |->
                      BuildRow(schema.lp, rIn.user_id, msgs[i],
                               MsgLookup(schema.lp, schema.dev, Visible("devices"), rIn.user_id, msgs[i]),
                               rLoc.default_device_id)]
           plan == PlanPositions(schema.lp, rows)
       IN  \E raised \in {TRUE, FALSE} :
             IF runs /\ (raised \/ MsgLookupInvalid(schema.dev))
             THEN /\ rOut' = Fail(500, [what |-> "SELECT id FROM devices"])
                  /\ rPc' = "close"
                  /\ rLoc' = rLoc
             ELSE IF plan.kind = "error"
             THEN /\ rOut' = Fail(500, plan.detail)
                  /\ rPc' = "close"
                  /\ rLoc' = [rLoc EXCEPT !.planned = TRUE,
                                         !.introspected = SchemaQueries(schema.lp, msgs)]
             ELSE IF plan.stmt.rows = <<>>
             THEN /\ rOut' = [status |-> 200, imported |-> 0, messages_seen |-> Len(msgs)]
                  /\ rPc' = "close"
                  /\ rLoc' = [rLoc EXCEPT !.planned = TRUE,
                                         !.introspected = SchemaQueries(schema.lp, msgs)]
             ELSE /\ rLoc' = [rLoc EXCEPT !.stmt = plan.stmt, !.i = 1, !.planned = TRUE,
                                         !.introspected = SchemaQueries(schema.lp, msgs)]
                  /\ rPc' = "exec"
                  /\ rOut' = rOut
    /\ UNCHANGED <<rIn, rStmts, dbVars, parseVars, race, fetchVars, calls>>

\* db.execute(text(sql), rows), a row at a time: the store takes the row, or
\* rejects it and the handler rolls back
ImportExec ==
    /\ rIn.kind = "import" /\ rPc = "exec"
    /\ LET sent == IF rLoc.i = 1 THEN Append(rStmts, Logged(rLoc.stmt)) ELSE rStmts
           row == rLoc.stmt.rows[rLoc.i]
       IN  \E taken \in {TRUE, FALSE} :
             IF taken /\ PositionInsertOk(schema.lp, Visible("live_positions"), row)
             THEN /\ committed' = Execute(committed, pending, "live_positions", StoredRow(rLoc.stmt, row)).committed
                  /\ pending' = Execute(committed, pending, "live_positions", StoredRow(rLoc.stmt, row)).pending
                  /\ rStmts' = TookRow(sent)
                  /\ rLoc' = [rLoc EXCEPT !.i = @ + 1]
                  /\ rPc' = IF rLoc.i = Len(rLoc.stmt.rows) THEN "commit" ELSE "exec"
                  /\ rOut' = rOut
             ELSE /\ committed' = Rollback(committed, pending).committed
                  /\ pending' = Rollback(committed, pending).pending
                  /\ rStmts' = sent
                  /\ rOut' = Fail(500, [what |-> "Insert live_positions failed",
                                        cause |-> IF PositionInsertOk(schema.lp, Visible("live_positions"), row)
                                                  THEN "other" ELSE "constraint"])
                  /\ rPc' = "close"
                  /\ rLoc' = rLoc
    /\ UNCHANGED <<rIn, schema, sess, nextId, parseVars, race, fetchVars, calls>>

\* db.commit() and the response
ImportCommit ==
    /\ rIn.kind = "import" /\ rPc = "commit"
    /\ committed' = CommitAll
    /\ pending' = NoTables
    /\ rOut' = [status |-> 200, imported |-> Len(rLoc.stmt.rows), messages_seen |-> Len(rIn.fetch.items)]
    /\ rPc' = "close"
    /\ UNCHANGED <<rIn, rLoc, rStmts, schema, sess, nextId, parseVars, race, fetchVars, calls>>

\* get_db: `finally: db.close()` ends the transaction without committing
CloseSession ==
    /\ rPc = "close" /\ sess = "open"
    /\ committed' = Close(committed, pending)
    /\ pending' = NoTables
    /\ sess' = "closed"
    /\ rPc' = "done"
    /\ UNCHANGED <<rIn, rLoc, rOut, rStmts, schema, nextId, parseVars, race, fetchVars, calls>>

(***************************************************************************)
(* POST /tracks/upload: one request on its own session.                    *)
(***************************************************************************)
\* the points of the uploaded file, as gpxpy gives them
PtA == [latitude |-> Num(3), longitude |-> Num(7), elevation |-> Num(5), time |-> Dt(5)]
PtB == [latitude |-> Num(5), longitude |-> Num(10), elevation |-> None, time |-> None]
PtC == [latitude |-> None, longitude |-> None, elevation |-> None, time |-> None]
PtD == [latitude |-> Num(3), longitude |-> Num(7), elevation |-> None, time |-> Dt(3)]
PointLists == UNION { [1..n -> {PtA, PtB, PtC, PtD}] : n \in 0..MaxPts }

\* file names: `filename.lower().endswith(".gpx")` and `filename.rsplit(".", 1)[0]`
EndsWithGpx == ("ride.gpx" :> TRUE) @@ ("Ride.GPX" :> TRUE) @@ ("notes.txt" :> FALSE)
Stem == ("ride.gpx" :> "ride") @@ ("Ride.GPX" :> "Ride") @@ ("notes.txt" :> "notes")

\* the uploads: a file name and what gpxpy.parse makes of the content
Uploads ==
    { [filename |-> "notes.txt", valid |-> TRUE, pts |-> <<PtA>>],
      [filename |-> "ride.gpx", valid |-> FALSE, pts |-> <<>>] } \cup
    { [filename |-> "ride.gpx", valid |-> TRUE, pts |-> l] : l \in PointLists } \cup
    { [filename |-> "Ride.GPX", valid |-> TRUE, pts |-> <<PtA, PtB>>] }

\* haversine_m between the coordinates of the model, in millimetres
HaversineMm ==
    (<<3, 7, 5, 10>> :> 400228735) @@ (<<5, 10, 3, 7>> :> 400228735)
    @@ (<<3, 7, 3, 7>> :> 0) @@ (<<5, 10, 5, 10>> :> 0)

HasCoords(p) == p.latitude # None /\ p.longitude # None

\* a total distance that joins the points on either side of a gap
RECURSIVE TotalDistAcrossGaps(_)
TotalDistAcrossGaps(pts) ==
    LET ps == SelectSeq(pts, HasCoords)
    IN  IF Len(ps) < 2 THEN 0
        ELSE HaversineMm[<<ps[1].latitude.n, ps[1].longitude.n, ps[2].latitude.n, ps[2].longitude.n>>]
             + TotalDistAcrossGaps(Tail(ps))

\* total_dist_m over the consecutive pairs with coordinates, in millimetres
RECURSIVE TotalDistMm(_)
TotalDistMm(pts) ==
    IF Len(pts) < 2 THEN 0
    ELSE (IF HasCoords(pts[1]) /\ HasCoords(pts[2])
          THEN HaversineMm[<<pts[1].latitude.n, pts[1].longitude.n,
                             pts[2].latitude.n, pts[2].longitude.n>>]
          ELSE 0) + TotalDistMm(Tail(pts))

\* int(total_dist_m)
IntMetres(mm) == mm \div 1000

\* datetime.now(timezone.utc) + timedelta(seconds = i), and ts + timedelta
NowPlus(i) == [t |-> "now", plus |-> i]
PlusSeconds(ts, i) == IF ts.t = "dt" THEN Dt(ts.epoch + i) ELSE NowPlus(ts.plus + i)

\* the time window and base timestamp
TimeWindow(pts) ==
    LET times == {pts[i].time : i \in {j \in 1..Len(pts) : Truthy(pts[j].time)}}
        lo == CHOOSE a \in times : \A b \in times : a.epoch <= b.epoch
        hi == CHOOSE a \in times : \A b \in times : a.epoch >= b.epoch
    IN  IF times # {}
        THEN [started_at |-> lo, ended_at |-> hi, base_ts |-> lo]
        ELSE [started_at |-> NowPlus(0),
              ended_at |-> NowPlus(IF Len(pts) - 1 > 0 THEN Len(pts) - 1 ELSE 0),
              base_ts |-> NowPlus(0)]

\* the tracks tables and the track_points tables
TracksSchemas ==
    { [cols |-> {"id", "user_id", "name", "started_at", "ended_at", "total_distance_m", "num_points"}],
      [cols |-> {"id", "name", "created_at"}],
      [cols |-> {"title"}] }
TpSchema(cols, idType, meta) ==
    [cols |-> cols, types |-> [c \in cols \cap {"id"} |-> idType], meta |-> meta]
UuidType == [dt |-> "uuid", udt |-> "uuid"]
BigintType == [dt |-> "bigint", udt |-> "int8"]
TpSchemas ==
    { TpSchema(cs, ty, m) :
        cs \in { {"id", "track_id", "ts", "elev_m", "geom"}, {"track_id", "ts", "geom"} },
        ty \in {UuidType, BigintType}, m \in GeomMetas } \cup
    { TpSchema(cs, BigintType, None) :
        cs \in { {"track_id", "seq", "lat", "lon", "ele", "t"}, {"id", "track_id", "seq", "lat", "lon", "t"},
                 {"track_id", "seq", "lat", "lng", "ele", "t"},
                 {"track_id", "seq", "lat", "lng", "t"}, {"track_id", "geom"}, {"id"},
                 {"track_id", "seq", "lat", "lon", "t", "geom"} } }

\* `proposed` and the part of it the tracks table has columns for
TrackRow(tracks, user_id, up, track_id) ==
    LET w == TimeWindow(up.pts)
        proposed == [id |-> track_id, user_id |-> Str(user_id), name |-> Str(Stem[up.filename]),
                     started_at |-> w.started_at, ended_at |-> w.ended_at,
                     total_distance_m |-> Num(IntMetres(TotalDistMm(up.pts))),
                     num_points |-> Num(Len(up.pts))]
    IN  [k \in DOMAIN proposed \cap tracks.cols |-> proposed[k]]

\* the argument names of ST_MakePoint in makepoint_sql
makepoint_sql(dim) == IF dim >= 3 THEN <<"lon", "lat", "z">> ELSE <<"lon", "lat">>

\* include_id: the id column is bound only when it is a uuid column
IncludeId(tp) ==
    "id" \in tp.cols /\ (tp.types["id"].dt = "uuid" \/ tp.types["id"].udt = "uuid")

\* a ts_value that gives every point without a time the base timestamp
PointTsNoOffset(p, base_ts, i) == IF Truthy(p.time) THEN p.time ELSE base_ts

\* ts_value of the point at the 0-based position i
PointTs(p, base_ts, i) == IF Truthy(p.time) THEN p.time ELSE PlusSeconds(base_ts, i)

\* the columns of the geometry INSERT into track_points
TpGeomCols(tp) ==
    (IF IncludeId(tp) THEN <<"id">> ELSE <<>>) \o <<"track_id", "ts">>
    \o (IF "elev_m" \in tp.cols THEN <<"elev_m">> ELSE <<>>) \o <<"geom">>

\* the rows of the geometry branch: the points with coordinates, each with
\* the next uuid4() when the id is bound
RECURSIVE TpGeomRows(_, _, _, _, _, _)
TpGeomRows(tp, pts, i, track_id, base_ts, k) ==
    IF i > Len(pts) THEN <<>>
    ELSE IF ~HasCoords(pts[i]) THEN TpGeomRows(tp, pts, i + 1, track_id, base_ts, k)
    ELSE << [track_id |-> track_id, ts |-> PointTs(pts[i], base_ts, i - 1),
             lat |-> pts[i].latitude, lon |-> pts[i].longitude, z |-> pts[i].elevation]
            @@ Field("elev_m" \in tp.cols, "elev_m", pts[i].elevation)
            @@ Field(IncludeId(tp), "id", Uuid(k)) >>
         \o TpGeomRows(tp, pts, i + 1, track_id, base_ts, IF IncludeId(tp) THEN k + 1 ELSE k)

classic_templates ==
    << <<"track_id", "seq", "lat", "lon", "ele", "t">>, <<"track_id", "seq", "lat", "lon", "t">>,
       <<"track_id", "seq", "lat", "lng", "ele", "t">> >>

\* the rows of the classic branch: one per point
TpClassicRows(template, pts, track_id, base_ts) ==
    [i \in 1..Len(pts) |->
        [track_id |-> track_id, seq |-> Num(i - 1)]
        @@ Field("lat" \in Range(template), "lat", pts[i].latitude)
        @@ Field("lon" \in Range(template), "lon", pts[i].longitude)
        @@ Field("lng" \in Range(template), "lng", pts[i].longitude)
        @@ Field("ele" \in Range(template), "ele", pts[i].elevation)
        @@ Field("t" \in Range(template), "t", PointTs(pts[i], base_ts, i - 1))]

\* what upload_gpx does after the tracks row: an error, or the statement
PlanPoints(tp, pts, track_id, base_ts, k) ==
    LET template == FirstTemplate(classic_templates, tp.cols)
    IN  IF {"track_id", "geom", "ts"} \subseteq tp.cols
        THEN IF TpGeomRows(tp, pts, 1, track_id, base_ts, k) = <<>>
             THEN [kind |-> "error", status |-> 400, detail |-> [what |-> "no valid coordinate points"]]
             ELSE [kind |-> "insert",
                   stmt |-> [table |-> "track_points", cols |-> TpGeomCols(tp),
                             point |-> makepoint_sql(get_geom_info(tp.meta).dim),
                             rows |-> TpGeomRows(tp, pts, 1, track_id, base_ts, k)]]
        ELSE IF template = <<>>
        THEN [kind |-> "error", status |-> 500,
              detail |-> [what |-> "schema unsupported", table |-> "track_points", cols |-> tp.cols]]
        ELSE [kind |-> "insert",
              stmt |-> [table |-> "track_points", cols |-> template, point |-> <<>>,
                        rows |-> TpClassicRows(template, pts, track_id, base_ts)]]

\* GET /tracks/{track_id}/points on the committed rows com (a request of
\* its own, on a new Session): [status, points].  A SELECT that names a
\* column the table lacks raises, and nothing in the handler catches it.
\* The points are given in the order the rows are stored; ORDER BY ts
\* permutes them.
NoRead == [status |-> 0, points |-> <<>>]
PointsOf(com, track_id) ==
    SelectSeq(com.track_points, LAMBDA r : RowGet(r, "track_id") = track_id)
get_track_points(tracks, tp, com, track_id) ==
    LET rows == PointsOf(com, track_id)
        Z(g) == IF Len(g) >= 3 THEN g[3] ELSE None
    IN  IF "id" \notin tracks.cols
        THEN [status |-> 500, points |-> <<>>]
        ELSE IF \A i \in 1..Len(com.tracks) : RowGet(com.tracks[i], "id") # track_id
        THEN [status |-> 404, points |-> <<>>]
        ELSE IF {"geom", "ts"} \subseteq tp.cols
        THEN IF "elev_m" \notin tp.cols \/ "track_id" \notin tp.cols
             THEN [status |-> 500, points |-> <<>>]
             ELSE [status |-> 200,
                   points |-> [i \in 1..Len(rows) |->
                                 [ts |-> RowGet(rows[i], "ts"), elev_m |-> RowGet(rows[i], "elev_m"),
                                  lat |-> rows[i].geom[2], lon |-> rows[i].geom[1],
                                  z |-> Z(rows[i].geom)]]]
        ELSE IF {"lat", "lon", "t"} \subseteq tp.cols \/ {"lat", "lng", "t"} \subseteq tp.cols
        THEN IF "ele" \notin tp.cols \/ "track_id" \notin tp.cols
             THEN [status |-> 500, points |-> <<>>]
             ELSE [status |-> 200,
                   points |-> [i \in 1..Len(rows) |->
                                 [ts |-> RowGet(rows[i], "t"), elev_m |-> RowGet(rows[i], "ele"),
                                  lat |-> RowGet(rows[i], "lat"),
                                  lon |-> IF {"lat", "lon", "t"} \subseteq tp.cols
                                          THEN RowGet(rows[i], "lon") ELSE RowGet(rows[i], "lng"),
                                  z |-> None]]]
        ELSE [status |-> 500, points |-> <<>>]

InitUpload ==
    /\ ParseIdle /\ FetchIdle /\ DevIdle
    /\ \E tr \in TracksSchemas, tp \in TpSchemas, up \in Uploads :
         /\ schema = [dev |-> NoDevSchema, lp |-> NoLpSchema, tracks |-> tr, tp |-> tp]
         /\ rIn = [kind |-> "upload", user_id |-> "u1", file |-> up, before |-> NoTables]
    /\ committed = NoTables
    /\ pending = NoTables
    /\ sess = "open"
    /\ nextId = 1
    /\ rPc = "start"
    /\ rLoc = [track_id |-> None, track_row |-> <<>>, base_ts |-> None, stmt |-> <<>>, i |-> 0,
               planned |-> FALSE, read |-> NoRead]
    /\ rOut = [status |-> 0]
    /\ rStmts = <<>>

\* an upload check that takes a file of any name
UploadRejectionAnyName(file) ==
    IF ~file.valid THEN "Invalid GPX"
    ELSE IF file.pts = <<>> THEN "GPX contains no points"
    ELSE "none"

\* the three checks before the first statement: the detail of the
\* HTTPException(400) raised, "none" when the upload passes them
UploadRejection(file) ==
    IF ~EndsWithGpx[file.filename] THEN "Only .gpx files are supported"
    ELSE IF ~file.valid THEN "Invalid GPX"
    ELSE IF file.pts = <<>> THEN "GPX contains no points"
    ELSE "none"

\* upload_gpx up to the tracks row it proposes
UploadValidate ==
    /\ rIn.kind = "upload" /\ rPc = "start"
    /\ IF UploadRejection(rIn.file) # "none"
       THEN /\ rOut' = Fail(400, [what |-> UploadRejection(rIn.file)])
            /\ rPc' = "close"
            /\ UNCHANGED <<rLoc, nextId>>
       ELSE /\ rLoc' = [rLoc EXCEPT !.track_id = Uuid(nextId),
                                    !.track_row = TrackRow(schema.tracks, rIn.user_id, rIn.file, Uuid(nextId)),
                                    !.base_ts = TimeWindow(rIn.file.pts).base_ts]
            /\ nextId' = nextId + 1
            /\ rPc' = "track"
            /\ rOut' = rOut
    /\ UNCHANGED <<rIn, rStmts, schema, committed, pending, sess, parseVars, race, fetchVars, calls>>

\* the INSERT INTO tracks, if the row has any column
UploadTrack ==
    /\ rIn.kind = "upload" /\ rPc = "track"
    /\ LET s == [table |-> "tracks", cols |-> DOMAIN rLoc.track_row, point |-> <<>>,
                 rows |-> <<rLoc.track_row>>]
       IN  IF DOMAIN rLoc.track_row = {}
           THEN /\ rPc' = "plan"
                /\ UNCHANGED <<committed, pending, rStmts, rOut>>
           ELSE \E taken \in {TRUE, FALSE} :
                  IF taken
                  THEN /\ committed' = Execute(committed, pending, "tracks", rLoc.track_row).committed
                       /\ pending' = Execute(committed, pending, "tracks", rLoc.track_row).pending
                       /\ rStmts' = TookRow(Append(rStmts, Logged(s)))
                       /\ rPc' = "plan"
                       /\ rOut' = rOut
                  ELSE /\ committed' = Rollback(committed, pending).committed
                       /\ pending' = Rollback(committed, pending).pending
                       /\ rStmts' = Append(rStmts, Logged(s))
                       /\ rOut' = Fail(500, [what |-> "Insert tracks failed"])
                       /\ rPc' = "close"
    /\ UNCHANGED <<rIn, rLoc, schema, sess, nextId, parseVars, race, fetchVars, calls>>

\* the choice of the track_points statement and its rows
UploadPlan ==
    /\ rIn.kind = "upload" /\ rPc = "plan"
    /\ LET plan == PlanPoints(schema.tp, rIn.file.pts, rLoc.track_id, rLoc.base_ts, nextId)
       IN  IF plan.kind = "error"
           THEN /\ committed' = Rollback(committed, pending).committed
                /\ pending' = Rollback(committed, pending).pending
                /\ rOut' = Fail(plan.status, plan.detail)
                /\ rPc' = "close"
                /\ rLoc' = [rLoc EXCEPT !.planned = TRUE]
                /\ nextId' = nextId
           ELSE /\ rLoc' = [rLoc EXCEPT !.stmt = plan.stmt, !.i = 1, !.planned = TRUE]
                /\ nextId' = IF "id" \in Range(plan.stmt.cols) THEN nextId + Len(plan.stmt.rows) ELSE nextId
                /\ rPc' = "exec"
                /\ UNCHANGED <<committed, pending, rOut>>
    /\ UNCHANGED <<rIn, rStmts, schema, sess, parseVars, race, fetchVars, calls>>

\* db.execute(text(sql), rows), a row at a time: the store takes the row, or
\* rejects it and the handler rolls back
UploadExec ==
    /\ rIn.kind = "upload" /\ rPc = "exec"
    /\ LET sent == IF rLoc.i = 1 THEN Append(rStmts, Logged(rLoc.stmt)) ELSE rStmts
           row == rLoc.stmt.rows[rLoc.i]
       IN  \E taken \in {TRUE, FALSE} :
             IF taken
             THEN /\ committed' = Execute(committed, pending, "track_points", StoredRow(rLoc.stmt, row)).committed
                  /\ pending' = Execute(committed, pending, "track_points", StoredRow(rLoc.stmt, row)).pending
                  /\ rStmts' = TookRow(sent)
                  /\ rLoc' = [rLoc EXCEPT !.i = @ + 1]
                  /\ rPc' = IF rLoc.i = Len(rLoc.stmt.rows) THEN "commit" ELSE "exec"
                  /\ rOut' = rOut
             ELSE /\ committed' = Rollback(committed, pending).committed
                  /\ pending' = Rollback(committed, pending).pending
                  /\ rStmts' = sent
                  /\ rOut' = Fail(500, [what |-> "Insert track_points failed"])
                  /\ rPc' = "close"
                  /\ rLoc' = rLoc
    /\ UNCHANGED <<rIn, schema, sess, nextId, parseVars, race, fetchVars, calls>>

\* db.commit() and the response
UploadCommit ==
    /\ rIn.kind = "upload" /\ rPc = "commit"
    /\ committed' = CommitAll
    /\ pending' = NoTables
    /\ rOut' = [status |-> 200, id |-> rLoc.track_id, points |-> Len(rLoc.stmt.rows),
                distance_m |-> IntMetres(TotalDistMm(rIn.file.pts)),
                started_at |-> TimeWindow(rIn.file.pts).started_at,
                ended_at |-> TimeWindow(rIn.file.pts).ended_at]
    /\ rPc' = "close"
    /\ UNCHANGED <<rIn, rLoc, rStmts, schema, sess, nextId, parseVars, race, fetchVars, calls>>

\* after a successful upload, its points are read back
ReadPoints ==
    /\ rIn.kind = "upload" /\ rPc = "done" /\ rOut.status = 200 /\ rLoc.read = NoRead
    /\ rLoc' = [rLoc EXCEPT !.read = get_track_points(schema.tracks, schema.tp, committed, rLoc.track_id)]
    /\ UNCHANGED <<rIn, rPc, rOut, rStmts, dbVars, parseVars, race, fetchVars, calls>>

Init == InitImport \/ InitUpload

Next ==
    \/ ImportFetch \/ ImportResolve \/ ImportPlan \/ ImportExec \/ ImportCommit
    \/ UploadValidate \/ UploadTrack \/ UploadPlan \/ UploadExec \/ UploadCommit \/ ReadPoints
    \/ CloseSession

Spec == Init /\ [][Next]_vars

(***************************************************************************)
(* Claims about the two requests (checked under Spec).                     *)
(***************************************************************************)
\* the row the store keeps for the bound row r of the logged statement st
StoredOf(st, r) ==
    IF st.table = "devices" THEN DeviceRow(r)
    ELSE IF st.table = "tracks" THEN r
    ELSE StoredRow(st, r)

\* the rows of table tbl the store took from the request, in order, whether
\* or not they were rolled back later
RECURSIVE TakenIn(_, _)
TakenIn(stmts, tbl) ==
    IF stmts = <<>> THEN <<>>
    ELSE (IF stmts[1].table = tbl
          THEN [i \in 1..stmts[1].taken |-> StoredOf(stmts[1], stmts[1].rows[i])]
          ELSE <<>>) \o TakenIn(Tail(stmts), tbl)

Tables == {"devices", "live_positions", "tracks", "track_points"}
\* the committed rows of tbl that were not there before the request
NewRows(tbl) == SubSeq(committed[tbl], Len(rIn.before[tbl]) + 1, Len(committed[tbl]))
NothingCommitted == committed = rIn.before
AllCommitted ==
    \A tbl \in Tables :
        /\ SubSeq(committed[tbl], 1, Len(rIn.before[tbl])) = rIn.before[tbl]
        /\ NewRows(tbl) = TakenIn(rStmts, tbl)
Failed == rPc \in {"close", "done"} /\ rOut.status # 200
Succeeded == rPc \in {"close", "done"} /\ rOut.status = 200

\* C1: a feed import commits nothing of its own when it ends in an error,
\* and when it succeeds it has committed every row of the batch together
\* with any device it created; at no moment is only part of them committed.
C1_ImportAllOrNothing ==
    rIn.kind = "import" =>
        /\ NothingCommitted \/ (Succeeded /\ AllCommitted)
        /\ Failed => NothingCommitted
        /\ (Succeeded /\ rIn.fetch.items # <<>>) =>
              /\ AllCommitted
              /\ Len(NewRows("live_positions")) = Len(rIn.fetch.items)

\* an import that created a device and had a row taken, then had a row
\* rejected by the store: nothing of it is committed
C1_Witness ==
    /\ rIn.kind = "import" /\ rPc = "done" /\ rOut.status = 500
    /\ Len(TakenIn(rStmts, "devices")) = 1
    /\ Len(TakenIn(rStmts, "live_positions")) = 1
    /\ Len(rIn.fetch.items) = 2
    /\ NothingCommitted

\* C2: the tracks row and the track_points rows of an upload are committed
\* together or not at all; a committed tracks row of the upload never exists
\* without the track_points rows of the same upload.
C2_UploadAllOrNothing ==
    rIn.kind = "upload" =>
        /\ NothingCommitted \/ (Succeeded /\ AllCommitted)
        /\ Failed => NothingCommitted
        /\ Succeeded =>
              /\ AllCommitted
              /\ Len(NewRows("track_points")) = Len(rLoc.stmt.rows)
        /\ NewRows("tracks") # <<>> =>
              /\ NewRows("track_points") # <<>>
              /\ NewRows("track_points") = TakenIn(rStmts, "track_points")

\* an upload whose tracks row was taken and whose track_points statement
\* failed on its second row: the tracks row is not committed
C2_Witness ==
    /\ rIn.kind = "upload" /\ rPc = "done" /\ rOut.status = 500
    /\ Len(TakenIn(rStmts, "tracks")) = 1
    /\ Len(TakenIn(rStmts, "track_points")) = 1
    /\ committed.tracks = <<>> /\ committed.track_points = <<>>

\* C5: with live_positions.device_id NOT NULL without a default, every
\* INSERT into live_positions that is sent to the store names device_id and
\* binds a non-null device_id in every row.
C5_RequiredDeviceIdNamed ==
    (rIn.kind = "import" /\ DeviceRequired(schema.lp)) =>
        \A k \in 1..Len(rStmts) :
            rStmts[k].table = "live_positions" =>
                /\ "device_id" \in Range(rStmts[k].cols)
                /\ \A j \in 1..Len(rStmts[k].rows) : RowGet(rStmts[k].rows[j], "device_id") # None

\* no template of opts fits the columns cols
NoTemplateFits(opts, cols) == \A i \in 1..Len(opts) : ~(Range(opts[i]) \subseteq cols)
\* the destination table of the request matches no known column set
Unsupported ==
    \/ /\ rIn.kind = "import"
       /\ "geom" \notin schema.lp.cols /\ NoTemplateFits(template_opts, schema.lp.cols)
    \/ /\ rIn.kind = "upload"
       /\ ~({"track_id", "geom", "ts"} \subseteq schema.tp.cols)
       /\ NoTemplateFits(classic_templates, schema.tp.cols)
Destination == IF rIn.kind = "import" THEN "live_positions" ELSE "track_points"
DestinationCols == IF rIn.kind = "import" THEN schema.lp.cols ELSE schema.tp.cols

\* C6: when the destination table matches no known column set, no INSERT
\* into it is executed, nothing the request wrote is committed, and a
\* request that gets as far as choosing the statement ends with the
\* unsupported-schema error naming the table and its actual columns.
C6_UnsupportedSchemaRejected ==
    (rIn.kind \in {"import", "upload"} /\ Unsupported) =>
        /\ \A k \in 1..Len(rStmts) : rStmts[k].table # Destination
        /\ NothingCommitted
        /\ (rLoc.planned /\ rPc \in {"close", "done"}) =>
              rOut = Fail(500, [what |-> "schema unsupported", table |-> Destination,
                                cols |-> DestinationCols])

\* an upload whose tracks row was taken before the track_points table was
\* found unsupported
C6_Witness ==
    /\ rIn.kind = "upload" /\ Unsupported /\ rPc = "done" /\ rLoc.planned
    /\ Len(TakenIn(rStmts, "tracks")) = 1
    /\ rOut.status = 500 /\ rOut.detail.table = "track_points"
    /\ rOut.detail.cols = {"track_id", "seq", "lat", "lng", "t"}

\* the records the rows of the built statement come from, in order
SourceRecords ==
    IF rIn.kind = "import"
    THEN [i \in 1..Len(rIn.fetch.items) |->
            [lon |-> rIn.fetch.items[i].lon, lat |-> rIn.fetch.items[i].lat, z |-> rIn.fetch.items[i].z]]
    ELSE LET ps == SelectSeq(rIn.file.pts, HasCoords)
         IN  [i \in 1..Len(ps) |->
                [lon |-> ps[i].longitude, lat |-> ps[i].latitude, z |-> ps[i].elevation]]
\* the dimension get_geom_info reports for the destination's geometry column
DestinationDim ==
    get_geom_info(IF rIn.kind = "import" THEN schema.lp.meta ELSE schema.tp.meta).dim
BuiltGeometryInsert ==
    rIn.kind \in {"import", "upload"} /\ rLoc.i > 0 /\ "geom" \in Range(rLoc.stmt.cols)
\* every row's point is (longitude, latitude) of its record, followed by the
\* record's elevation (0.0 when absent) exactly when third holds
PointsAre(third) ==
    /\ Len(rLoc.stmt.rows) = Len(SourceRecords)
    /\ \A j \in 1..Len(rLoc.stmt.rows) :
         LET pt == MakePoint(rLoc.stmt.point, rLoc.stmt.rows[j])
             rec == SourceRecords[j]
         IN  /\ Len(pt) \in {2, 3}
             /\ pt[1] = rec.lon /\ pt[2] = rec.lat
             /\ Len(pt) = 3 <=> third
             /\ Len(pt) = 3 => pt[3] = (IF rec.z = None THEN Num(0) ELSE rec.z)

\* C7 as stated: in every geometry insert the point is (longitude, latitude)
\* of the record, with the elevation (default 0.0) as third argument exactly
\* when the geometry column's dimension is 3.
C7_PointArgsDimIs3 == BuiltGeometryInsert => PointsAre(DestinationDim = 3)

\* C7 amended: the same, with the third argument exactly when the geometry
\* column's dimension is at least 3.
C7_PointArgsDimAtLeast3 == BuiltGeometryInsert => PointsAre(DestinationDim >= 3)

\* a committed upload into a 3-dimensional geometry column with a point that
\* has no elevation
C7_Witness ==
    /\ rIn.kind = "upload" /\ BuiltGeometryInsert /\ rPc = "done" /\ rOut.status = 200
    /\ DestinationDim = 3
    /\ \E j \in 1..Len(rLoc.stmt.rows) :
         /\ rLoc.stmt.rows[j].z = None
         /\ MakePoint(rLoc.stmt.point, rLoc.stmt.rows[j]) = <<Num(10), Num(5), Num(0)>>

\* the bound row r has no latitude or no longitude
LacksCoordinates(r) ==
    RowGet(r, "lat") = None \/ (RowGet(r, "lon") = None /\ RowGet(r, "lng") = None)
\* an INSERT into the request's destination table that was sent to the store
ExecutedInserts == {k \in 1..Len(rStmts) : rStmts[k].table \in {"live_positions", "track_points"}}

\* C12: in both flows and both representations no row without a latitude
\* or without a longitude is among the bound rows of an executed INSERT.
C12_NoRowWithoutCoordinates ==
    rIn.kind \in {"import", "upload"} =>
        \A k \in ExecutedInserts :
            \A j \in 1..Len(rStmts[k].rows) : ~LacksCoordinates(rStmts[k].rows[j])

\* The same, for every executed INSERT but the scalar one of an upload.
NoRowWithoutCoordinatesElsewhere ==
    rIn.kind \in {"import", "upload"} =>
        \A k \in ExecutedInserts :
            (rStmts[k].table = "live_positions" \/ "geom" \in Range(rStmts[k].cols)) =>
                \A j \in 1..Len(rStmts[k].rows) : ~LacksCoordinates(rStmts[k].rows[j])

\* the batch of the request has no row with coordinates: the feed gave no
\* message with coordinates, or no point of the file has coordinates
EmptyAfterDrop ==
    \/ rIn.kind = "import" /\ rIn.fetch.state = "ok" /\ rIn.fetch.items = <<>>
    \/ /\ rIn.kind = "upload" /\ EndsWithGpx[rIn.file.filename] /\ rIn.file.valid
       /\ rIn.file.pts # <<>> /\ SelectSeq(rIn.file.pts, HasCoords) = <<>>
\* the response reports zero rows written without an error
ReportsZero ==
    /\ rOut.status = 200
    /\ IF rIn.kind = "import" THEN rOut.imported = 0 ELSE rOut.points = 0

\* C13: when no row of the batch is left after the rows without
\* coordinates are dropped and the destination table is supported, no
\* INSERT for the batch is executed and the request, once it is past its
\* earlier inserts, answers with zero rows written and no error.
C13_EmptyBatchIsNoError ==
    (EmptyAfterDrop /\ ~Unsupported /\ (rIn.kind = "import" \/ rLoc.planned)) =>
        /\ ExecutedInserts = {}
        /\ rPc \in {"close", "done"} => ReportsZero

\* The same for the feed import alone.
ImportEmptyBatchIsNoError ==
    (EmptyAfterDrop /\ rIn.kind = "import") =>
        /\ ExecutedInserts = {}
        /\ rPc \in {"close", "done"} => ReportsZero

\* the store enforces uniqueness of the message identifier
MsgIdUnique == "provider_msg_id" \in schema.lp.cols
\* the feed holds the message an earlier import has ingested
HasIngestedMessage ==
    /\ rIn.fetch.state = "ok" /\ rIn.before.live_positions # <<>>
    /\ \E i \in 1..Len(rIn.fetch.items) : rIn.fetch.items[i] = PosA
\* the store refused a row for a reason other than its constraints
RefusedOtherwise ==
    /\ rOut.status = 500 /\ rOut.detail.what = "Insert live_positions failed"
    /\ rOut.detail.cause = "other"

\* C14: with uniqueness enforced on the message identifier and a feed that
\* holds an already ingested message, an import that has chosen its
\* statement does not fail for it, and has committed a row for every
\* message that was not ingested before.
C14_DuplicateMessageTolerated ==
    (/\ rIn.kind = "import" /\ MsgIdUnique /\ HasIngestedMessage
     /\ rLoc.planned /\ rPc \in {"close", "done"} /\ ~RefusedOtherwise) =>
        /\ rOut.status = 200
        /\ Len(NewRows("live_positions")) >= Cardinality({i \in 1..Len(rIn.fetch.items) : rIn.fetch.items[i] # PosA})


(***************************************************************************)
(* Two imports of one user run at the same time, each on its own Session   *)
(* (get_db opens one Session per request).  A Session sees the committed   *)
(* rows and its own writes; an INSERT whose key another open transaction   *)
(* has written waits for that transaction to end.                          *)
(***************************************************************************)
Importers == {"A", "B"}
RaceStart(e) ==
    [pc |-> "lookup", esn |-> e, dev |-> None, bind |-> <<>>, wrote |-> FALSE,
     rejected |-> "no", status |-> 0]

\* the rows import p's statements see
RaceVisible(p) ==
    committed.devices \o (IF race[p].wrote THEN <<DeviceRow(race[p].bind)>> ELSE <<>>)

\* (type, external_id) of the row to insert is the key of one of the rows
DeviceKeyTaken(sch, rows, bind) ==
    /\ sch.uniq
    /\ \E i \in 1..Len(rows) :
          /\ rows[i].type # None /\ rows[i].external_id # None
          /\ rows[i].type = DeviceRow(bind).type
          /\ rows[i].external_id = DeviceRow(bind).external_id

\* another import's open transaction holds the key import p wants to insert
RaceBlocked(p) ==
    \E q \in Importers \ {p} :
        /\ race[q].wrote /\ race[q].pc = "rest"
        /\ DeviceKeyTaken(schema.dev, <<DeviceRow(race[q].bind)>>, race[p].bind)

InitRace ==
    /\ ParseIdle /\ FetchIdle /\ ReqIdle /\ calls = <<>>
    /\ \E d \in ImportDevSchemas :
         /\ schema = [dev |-> d, lp |-> NoLpSchema, tracks |-> NoTableSchema, tp |-> NoTableSchema]
         /\ \E t \in ImportDeviceTables(d) :
              /\ committed = [NoTables EXCEPT !.devices = t]
              /\ nextId = Len(t) + 1
    /\ pending = NoTables
    /\ sess = "open"
    /\ \E e \in Esns : race = [p \in Importers |-> RaceStart(e)]

\* ensure_spot_device_for_user up to its INSERT: the two SELECTs
RaceLookup(p) ==
    /\ race # NoRace /\ race[p].pc = "lookup"
    /\ LET r == ensure_spot_device_for_user(schema.dev, RaceVisible(p), "u1", race[p].esn, Uuid(nextId))
       IN  CASE r.kind = "error" ->
                    /\ race' = [race EXCEPT ![p].pc = "done", ![p].status = 500]
                    /\ nextId' = nextId
             [] r.kind = "found" ->
                    /\ race' = [race EXCEPT ![p].pc = "rest", ![p].dev = r.id]
                    /\ nextId' = nextId
             [] r.kind = "create" ->
                    /\ race' = [race EXCEPT ![p].pc = "insert", ![p].dev = r.id, ![p].bind = r.bind]
                    /\ nextId' = nextId + 1
    /\ UNCHANGED <<schema, committed, pending, sess, calls, parseVars, fetchVars, reqVars>>

\* the INSERT INTO devices of ensure_spot_device_for_user: an exception of
\* db.execute leaves the function and the request, which answers 500
RaceInsert(p) ==
    /\ race # NoRace /\ race[p].pc = "insert" /\ ~RaceBlocked(p)
    /\ IF DeviceInsertOk(schema.dev, RaceVisible(p), race[p].bind)
       THEN race' = [race EXCEPT ![p].pc = "rest", ![p].wrote = TRUE]
       ELSE race' = [race EXCEPT ![p].pc = "done", ![p].status = 500, ![p].dev = None,
                                 ![p].rejected = IF DeviceKeyTaken(schema.dev, RaceVisible(p), race[p].bind)
                                                 THEN "unique" ELSE "other"]
    /\ UNCHANGED <<dbVars, calls, parseVars, fetchVars, reqVars>>

\* the rest of the import succeeds: db.commit() and the 200 response
RaceCommit(p) ==
    /\ race # NoRace /\ race[p].pc = "rest"
    /\ committed' = [committed EXCEPT !.devices = RaceVisible(p)]
    /\ race' = [race EXCEPT ![p].pc = "done", ![p].status = 200, ![p].wrote = FALSE]
    /\ UNCHANGED <<schema, pending, sess, nextId, calls, parseVars, fetchVars, reqVars>>

\* the rest of the import fails: db.rollback() and the 500 response
RaceAbort(p) ==
    /\ race # NoRace /\ race[p].pc = "rest"
    /\ race' = [race EXCEPT ![p].pc = "done", ![p].status = 500, ![p].wrote = FALSE]
    /\ UNCHANGED <<dbVars, calls, parseVars, fetchVars, reqVars>>

NextRace ==
    \E p \in Importers : RaceLookup(p) \/ RaceInsert(p) \/ RaceCommit(p) \/ RaceAbort(p)

SpecRace == InitRace /\ [][NextRace]_vars

\* import p found no device and tried to create one
TriedCreate(p) == race[p].bind # <<>>

\* import q created the device and committed it
Winner(q) == TriedCreate(q) /\ race[q].pc = "done" /\ race[q].status = 200

\* C15: when two concurrent imports of one user and one external device id
\* both find no device and both try to create it, the import whose create
\* the uniqueness constraint rejects completes without a fatal error, with
\* the id of the device the other import created
C15_LoserRetriesAsLookup ==
    \A p \in Importers : \A q \in Importers \ {p} :
       (/\ race # NoRace /\ race[p].esn # None /\ TriedCreate(p) /\ Winner(q)
        /\ race[p].pc = "done" /\ race[p].rejected = "unique") =>
           /\ race[p].status = 200
           /\ race[p].dev = race[q].dev

\* what the store does guarantee: under the uniqueness constraint the two
\* imports never leave two committed rows with one (type, external_id)
OneRowPerKeyWhereUnique ==
    (race # NoRace /\ schema.dev.uniq) =>
       \A i, j \in 1..Len(committed.devices) :
          (/\ i # j /\ committed.devices[i].type # None
           /\ committed.devices[i].external_id # None) =>
              ~(/\ committed.devices[i].type = committed.devices[j].type
                /\ committed.devices[i].external_id = committed.devices[j].external_id)

\* C16: an upload whose file name does not end in .gpx, whose payload cannot
\* be parsed or whose payload holds no track point is answered with status
\* 400, and no statement is executed against tracks or track_points
C16_BadUploadRejected ==
    (/\ rIn.kind = "upload" /\ rPc # "start"
     /\ \/ ~EndsWithGpx[rIn.file.filename]
        \/ ~rIn.file.valid
        \/ rIn.file.pts = <<>>) =>
        /\ rOut.status = 400
        /\ rStmts = <<>>
        /\ pending = NoTables
        /\ committed = rIn.before

\* an upload of a well-formed .gpx file without points has been answered
C16_Witness ==
    /\ rIn.kind = "upload" /\ rPc = "done"
    /\ EndsWithGpx[rIn.file.filename] /\ rIn.file.valid /\ rIn.file.pts = <<>>
    /\ rOut.status = 400
\* an upload that was answered with status 200
UploadSucceeded == rIn.kind = "upload" /\ Succeeded
NoPointTimed == \A i \in 1..Len(rIn.file.pts) : rIn.file.pts[i].time = None
EveryPointTimed == \A i \in 1..Len(rIn.file.pts) : rIn.file.pts[i].time # None

\* the 1-based position, in the parsed point order, of the point the k-th
\* new track_points row was made from: the geometry rows are the points
\* with coordinates, the other rows are all points
StoredFrom(k) ==
    IF "geom" \in Range(rLoc.stmt.cols)
    THEN CHOOSE i \in 1..Len(rIn.file.pts) :
            /\ HasCoords(rIn.file.pts[i])
            /\ Cardinality({j \in 1..i : HasCoords(rIn.file.pts[j])}) = k
    ELSE k
\* the timestamp of a stored track_points row
StoredTs(row) == IF "ts" \in DOMAIN row THEN row.ts ELSE row.t

\* C17: an upload of n >= 1 points none of which has a timestamp starts at
\* the ingestion time now and ends at now + (n-1) seconds, and the point at
\* the 0-based position i is stored with now + i seconds; when every point
\* has a timestamp the window is the minimum and the maximum of them
C17_TimeWindow ==
    UploadSucceeded =>
      LET pts == rIn.file.pts
          new == NewRows("track_points")
          trk == NewRows("tracks")
      IN  /\ NoPointTimed =>
               /\ rOut.started_at = NowPlus(0)
               /\ rOut.ended_at = NowPlus(Len(pts) - 1)
               /\ \A k \in 1..Len(new) : StoredTs(new[k]) = NowPlus(StoredFrom(k) - 1)
               /\ \A k \in 1..Len(trk) :
                     ("started_at" \in DOMAIN trk[k] /\ "ended_at" \in DOMAIN trk[k]) =>
                        trk[k].started_at = NowPlus(0) /\ trk[k].ended_at = NowPlus(Len(pts) - 1)
          /\ EveryPointTimed =>
               /\ \E i \in 1..Len(pts) : rOut.started_at = pts[i].time
               /\ \E i \in 1..Len(pts) : rOut.ended_at = pts[i].time
               /\ \A i \in 1..Len(pts) :
                     /\ rOut.started_at.epoch <= pts[i].time.epoch
                     /\ rOut.ended_at.epoch >= pts[i].time.epoch

\* a committed upload of two points without timestamps, both stored
C17_Witness ==
    /\ UploadSucceeded /\ NoPointTimed /\ Len(rIn.file.pts) = 2
    /\ Len(NewRows("track_points")) = 2
    /\ StoredTs(NewRows("track_points")[2]) = NowPlus(1)
\* the length of the segment from the point at position i to the next one,
\* in millimetres: nothing when either of the two lacks a coordinate
SegmentMm(i) ==
    LET a == rIn.file.pts[i]
        b == rIn.file.pts[i + 1]
    IN  IF HasCoords(a) /\ HasCoords(b)
        THEN HaversineMm[<<a.latitude.n, a.longitude.n, b.latitude.n, b.longitude.n>>]
        ELSE 0
RECURSIVE SegmentsMm(_)
SegmentsMm(n) == IF n <= 0 THEN 0 ELSE SegmentsMm(n - 1) + SegmentMm(n)
\* that sum in whole metres, truncated
WholeMetres == SegmentsMm(Len(rIn.file.pts) - 1) \div 1000

\* C18: the distance of an upload is the sum of the segment lengths over the
\* consecutive pairs of parsed points that both have coordinates, and the
\* response and the tracks row both carry that sum truncated to an integer
C18_DistanceOverAdjacentPairs ==
    UploadSucceeded =>
        /\ rOut.distance_m = WholeMetres
        /\ \A k \in 1..Len(NewRows("tracks")) :
              "total_distance_m" \in DOMAIN NewRows("tracks")[k] =>
                  NewRows("tracks")[k].total_distance_m = Num(WholeMetres)

\* a committed upload of three points, the middle one without coordinates,
\* into a tracks table that stores the distance
C18_Witness ==
    /\ UploadSucceeded /\ Len(rIn.file.pts) = 3
    /\ HasCoords(rIn.file.pts[1]) /\ ~HasCoords(rIn.file.pts[2]) /\ HasCoords(rIn.file.pts[3])
    /\ rIn.file.pts[1].latitude # rIn.file.pts[3].latitude
    /\ Len(NewRows("tracks")) = 1
    /\ "total_distance_m" \in DOMAIN NewRows("tracks")[1]
    /\ rOut.distance_m = 0
\* an upload into a geometry track_points table of dimension 2 or 3 was
\* committed, and its points were read back
ReadBackGeometry ==
    /\ UploadSucceeded /\ rLoc.read # NoRead
    /\ "id" \in schema.tracks.cols
    /\ "geom" \in Range(rLoc.stmt.cols)
    /\ DestinationDim \in {2, 3}
\* the points read back are the supplied points with coordinates, each with
\* its latitude, longitude and elevation (absent when none was supplied)
ReadEqualsSupplied ==
    /\ rLoc.read.status = 200
    /\ Len(rLoc.read.points) = Len(SourceRecords)
    /\ \A k \in 1..Len(SourceRecords) :
          /\ rLoc.read.points[k].lat = SourceRecords[k].lat
          /\ rLoc.read.points[k].lon = SourceRecords[k].lon
          /\ rLoc.read.points[k].elev_m = SourceRecords[k].z

\* C19: the points upload_gpx writes into a geometry track_points table
\* (dimension 2 or 3, with or without an elev_m column) are read back by
\* get_track_points with the supplied latitude, longitude and elevation,
\* an absent elevation being read back as absent
C19_GeometryRoundTrip == ReadBackGeometry => ReadEqualsSupplied

\* what does hold: the round trip through a table that has an elev_m column
RoundTripWithElevColumn ==
    (ReadBackGeometry /\ "elev_m" \in schema.tp.cols) => ReadEqualsSupplied
\* what the query on geometry_columns gives for the destination's column
DestinationMeta == IF rIn.kind = "import" THEN schema.lp.meta ELSE schema.tp.meta

\* C20: get_geom_info returns the default (dimension 2, srid 4326) without
\* raising when the column has no geometry metadata, and only then: when
\* the metadata query itself fails the failure reaches the caller, so no
\* geometry insert is built from the default
C20_DefaultOnlyWhenMetadataAbsent ==
    /\ (BuiltGeometryInsert /\ DestinationMeta = None) => Len(rLoc.stmt.point) = DefaultDim
    /\ DestinationMeta = Raised => ~BuiltGeometryInsert

\* what does hold: with the metadata absent the insert is built with the
\* point of the default dimension
DefaultWhenMetadataAbsent ==
    (BuiltGeometryInsert /\ DestinationMeta = None) => Len(rLoc.stmt.point) = DefaultDim
\* the request is over: get_db's `finally: db.close()` has run
RequestEnded == rIn.kind \in {"import", "upload"} /\ rPc = "done"

\* C21: on every exit path of an ingestion request (normal return, an HTTP
\* error with or without a rollback, an unexpected exception) the session is
\* closed within the request: the handler never stops before the close, and
\* after it no write is left uncommitted, a failed request having committed
\* nothing and a successful one exactly what it wrote
C21_SessionReleasedOnEveryPath ==
    rIn.kind \in {"import", "upload"} =>
        /\ rPc # "done" => ENABLED (Next)
        /\ sess = "closed" <=> rPc = "done"
        /\ RequestEnded =>
              /\ pending = NoTables
              /\ rOut.status # 200 => NothingCommitted
              /\ rOut.status = 200 => AllCommitted

\* an import that wrote a new device and then left with an HTTP error that
\* no rollback preceded (the unsupported schema) has ended
C21_Witness ==
    /\ RequestEnded /\ rIn.kind = "import"
    /\ rOut.status = 500 /\ rOut.detail.what = "schema unsupported"
    /\ Len(TakenIn(rStmts, "devices")) = 1
    /\ NothingCommitted
\* the request built a statement for its destination without the geometry
\* column, or looked for a scalar template and found none
ScalarStatementBuilt == rLoc.i > 0 /\ "geom" \notin Range(rLoc.stmt.cols)
TemplatesFoundNothing == rOut.status = 500 /\ rOut.detail.what = "schema unsupported"

\* C22: whenever the destination table has the geometry column, the import
\* and the upload use the geometry representation, also when scalar
\* coordinate columns exist beside it; the scalar templates are looked at
\* only when the geometry column is absent
C22_GeometryTakesPrecedence ==
    (rIn.kind \in {"import", "upload"} /\ "geom" \in DestinationCols) =>
        ~ScalarStatementBuilt /\ ~TemplatesFoundNothing

\* what does hold: the import always uses the geometry column when there is
\* one, and the upload does when track_id and ts are there as well
GeometryPrecedenceWhereComplete ==
    (\/ rIn.kind = "import" /\ "geom" \in schema.lp.cols
     \/ rIn.kind = "upload" /\ {"track_id", "geom", "ts"} \subseteq schema.tp.cols) =>
        ~ScalarStatementBuilt /\ ~TemplatesFoundNothing
\* the template list of the request's flow, the templates of it that the
\* destination has all columns of, and the longitude of the j-th record
Templates == IF rIn.kind = "import" THEN template_opts ELSE classic_templates
Fitting == {k \in 1..Len(Templates) : Range(Templates[k]) \subseteq DestinationCols}
SuppliedLongitude(j) ==
    IF rIn.kind = "import" THEN rIn.fetch.items[j].lon ELSE rIn.file.pts[j].longitude

\* C23: in the scalar representation the statement names exactly the
\* columns of the first template of the list that the live schema has all
\* columns of, every bound row has a value or null for each of them, and
\* the record's longitude is bound to the template's lon or lng
C23_FirstFittingTemplate ==
    (rIn.kind \in {"import", "upload"} /\ ScalarStatementBuilt) =>
        /\ Fitting # {}
        /\ \A k \in Fitting : (\A j \in Fitting : k <= j) => rLoc.stmt.cols = Templates[k]
        /\ \A j \in 1..Len(rLoc.stmt.rows) :
              /\ Range(rLoc.stmt.cols) \subseteq DOMAIN rLoc.stmt.rows[j]
              /\ \A c \in Range(rLoc.stmt.cols) \cap {"lon", "lng"} :
                    rLoc.stmt.rows[j][c] = SuppliedLongitude(j)
        /\ Range(rLoc.stmt.cols) \cap {"lon", "lng"} # {}

\* a committed import into a table that two templates fit, the chosen one
\* naming lng
C23_Witness ==
    /\ rIn.kind = "import" /\ Succeeded /\ ScalarStatementBuilt
    /\ Cardinality(Fitting) = 2
    /\ "lng" \in Range(rLoc.stmt.cols)
    /\ Len(NewRows("live_positions")) = 2
\* the devices table before the first call, and the first call's outcome
CreatedSoFar == Cardinality({i \in 1..Len(calls) : calls[i].kind = "created"})
TableBefore == SubSeq(Visible("devices"), 1, Len(Visible("devices")) - CreatedSoFar)
FirstCallMade == Len(calls) >= 2 /\ calls[2].kind # "error"
\* the rows that match (provider, external id) scoped to the user, and the
\* rows that match (user, synthesized name), each on the columns that exist
ExactHits ==
    IF {"provider", "external_id"} \subseteq schema.dev.cols
    THEN {i \in 1..Len(TableBefore) :
            /\ LabelVal(schema.dev, "provider", "spot") # None
            /\ TableBefore[i].provider = LabelVal(schema.dev, "provider", "spot")
            /\ TableBefore[i].external_id = ExternalIdVal(schema.dev, calls[1].esn)
            /\ "user_id" \in schema.dev.cols => TableBefore[i].user_id = Str(calls[1].user_id)}
    ELSE {}
FallbackHits ==
    IF "user_id" \in schema.dev.cols \/ "name" \in schema.dev.cols
    THEN {i \in 1..Len(TableBefore) :
            /\ "user_id" \in schema.dev.cols => TableBefore[i].user_id = Str(calls[1].user_id)
            /\ "name" \in schema.dev.cols => TableBefore[i].name = NameVal(schema.dev, calls[1].esn)}
    ELSE {}
IdsAt(hits) == {TableBefore[i].id : i \in hits}

\* C24: ensure_spot_device_for_user returns a device matching (provider,
\* external id) scoped to the user when there is one, a device matching
\* (user, synthesized name) only when there is none, and creates a device
\* only when neither lookup matches
C24_LookupOrder ==
    FirstCallMade =>
        /\ ExactHits # {} => calls[2].kind = "found" /\ calls[2].id \in IdsAt(ExactHits)
        /\ (ExactHits = {} /\ FallbackHits # {}) =>
              calls[2].kind = "found" /\ calls[2].id \in IdsAt(FallbackHits)
        /\ Inserted(calls[2]) => ExactHits = {} /\ FallbackHits = {}

\* the exact match was returned although a row that matches only the user
\* comes first in the table
C24_Witness ==
    /\ FirstCallMade /\ calls[2].kind = "found"
    /\ \E i \in FallbackHits \ ExactHits : \E j \in ExactHits :
          i < j /\ calls[2].id = TableBefore[j].id
\* the enum-typed columns among type and provider, and the labels of one
EnumTyped ==
    {c \in {"type", "provider"} \cap schema.dev.cols : schema.dev.types[c].dt = "USER-DEFINED"}
LiveLabels(c) == schema.dev.labels[schema.dev.types[c].udt]
\* SPOT's own label among the labels ls: the labels that read spot, in any
\* letter case
OwnLabels(ls) == {i \in 1..Len(ls) : Lower(ls[i]) = "spot"}

\* C25: for an enum-typed type or provider column the value of a new device
\* is SPOT's own label when the live labels have it, else the first label
\* in the enum's order; with any label at all it is one of the live labels
C25_EnumLabelChosen ==
    \A k \in 2..Len(calls) : Inserted(calls[k]) =>
        \A c \in EnumTyped :
            LET ls == LiveLabels(c)
            IN  /\ OwnLabels(ls) # {} =>
                      /\ c \in DOMAIN calls[k].bind
                      /\ \E i \in OwnLabels(ls) :
                            /\ calls[k].bind[c] = Str(ls[i])
                            /\ \A j \in OwnLabels(ls) : i <= j
                /\ (OwnLabels(ls) = {} /\ Len(ls) > 0) =>
                      c \in DOMAIN calls[k].bind /\ calls[k].bind[c] = Str(ls[1])
                /\ Len(ls) > 0 => calls[k].bind[c].s \in Range(ls)

\* a device was created in a table whose provider enum has SPOT's label in
\* the second place
C25_Witness ==
    /\ Len(calls) >= 2 /\ calls[2].kind = "created"
    /\ "provider" \in EnumTyped
    /\ LiveLabels("provider") = <<"other", "SPOT", "Active">>
    /\ calls[2].bind["provider"] = Str("SPOT")
\* the schema queries a batch of one message takes on the live schema
QueriesOfOneMessage ==
    [live_positions |-> 3,
     devices |-> (IF DeviceRequired(schema.lp) THEN 3 ELSE 0)
                 + (IF "device_id" \in schema.lp.cols THEN 1 ELSE 0)]
ImportPlanned == rIn.kind = "import" /\ rLoc.planned

\* C26: insert_positions introspects each table once per batch and not once
\* per row: it issues as many schema queries for a batch of any size as for
\* a batch of one message
C26_IntrospectOncePerBatch == ImportPlanned => rLoc.introspected = QueriesOfOneMessage

\* what does hold: live_positions itself is introspected once, and so is
\* devices when live_positions has no device_id column
IntrospectOnceWithoutDeviceColumn ==
    ImportPlanned =>
        /\ rLoc.introspected.live_positions = QueriesOfOneMessage.live_positions
        /\ "device_id" \notin schema.lp.cols => rLoc.introspected = QueriesOfOneMessage
\* the import needs a device for every row and has resolved the default one
DefaultResolved ==
    /\ rIn.kind = "import" /\ DeviceRequired(schema.lp)
    /\ rPc \in {"rows", "exec", "commit"}
DeviceStmts == {k \in 1..Len(rStmts) : rStmts[k].table = "devices"}
\* the id the per-message lookup finds for the message m
OwnLookup(m) == MsgLookup(schema.lp, schema.dev, Visible("devices"), rIn.user_id, m)
\* the external device id of the first message, and of the first message
\* that has one
EsnOfFirst == rIn.fetch.items[1].esn
EsnOfFirstWithOne ==
    LET has == {i \in 1..Len(rIn.fetch.items) : Truthy(rIn.fetch.items[i].esn)}
    IN  IF has = {} THEN None ELSE rIn.fetch.items[CHOOSE i \in has : \A j \in has : i <= j].esn
\* one default device is resolved for the batch, a created one carrying the
\* external device id esn, and every row without a device of its own gets it
OneDefaultDeviceFrom(esn) ==
    /\ rLoc.default_device_id # None
    /\ Cardinality(DeviceStmts) <= 1
    /\ \A k \in DeviceStmts :
          LET row == rStmts[k].rows[1]
          IN  /\ row.id = rLoc.default_device_id
              /\ "external_id" \in DOMAIN row => row.external_id = ExternalIdVal(schema.dev, esn)
              /\ "name" \in DOMAIN row => row.name = NameVal(schema.dev, esn)
    /\ (rLoc.i > 0 /\ Len(rLoc.stmt.rows) = Len(rIn.fetch.items)) =>
          \A j \in 1..Len(rLoc.stmt.rows) :
             rLoc.stmt.rows[j].device_id =
                (IF OwnLookup(rIn.fetch.items[j]) # None
                 THEN OwnLookup(rIn.fetch.items[j]) ELSE rLoc.default_device_id)

\* C27 as stated: when live_positions requires a device, the import
\* resolves one default device per batch from the external device id of the
\* first message, and every row whose own lookup finds nothing gets it
C27_DefaultFromFirstMessage == DefaultResolved => OneDefaultDeviceFrom(EsnOfFirst)

\* C27 amended: the same, from the external device id of the first message
\* of the batch that has one
C27_DefaultFromFirstEsn == DefaultResolved => OneDefaultDeviceFrom(EsnOfFirstWithOne)

\* a batch whose first message has no external device id and whose second
\* has one: the device is created with the second message's id
C27_Witness ==
    /\ DefaultResolved /\ rPc = "commit"
    /\ Len(rIn.fetch.items) = 2
    /\ rIn.fetch.items[1].esn = None /\ rIn.fetch.items[2].esn = Str("A")
    /\ \E k \in DeviceStmts :
          /\ "external_id" \in DOMAIN rStmts[k].rows[1]
          /\ rStmts[k].rows[1].external_id = Str("A")
\* the timestamp ts is not before lo and not after hi; the three are file
\* times, or offsets in seconds from the ingestion time
WithinWindow(ts, lo, hi) ==
    IF ts.t = "dt" THEN lo.epoch <= ts.epoch /\ ts.epoch <= hi.epoch
    ELSE lo.plus <= ts.plus /\ ts.plus <= hi.plus
EveryPointInWindow ==
    \A k \in 1..Len(NewRows("track_points")) :
        WithinWindow(StoredTs(NewRows("track_points")[k]), rOut.started_at, rOut.ended_at)

\* C28: after every successful upload the timestamp of every stored track
\* point lies in the closed interval from startedAt to endedAt of its
\* track, whether all, none or only some of the points carry a timestamp
C28_PointsWithinWindow == UploadSucceeded => EveryPointInWindow

\* what does hold: the same for files in which all points or no point
\* carry a timestamp
PointsWithinWindowWhenUniform ==
    (UploadSucceeded /\ (NoPointTimed \/ EveryPointTimed)) => EveryPointInWindow
\* the point count of the upload: the response's, the number of committed
\* track_points rows, and the tracks row's where the table stores it
CountReturned == rOut.points
CountCommitted == Len(NewRows("track_points"))
CountsInTrackRow ==
    {NewRows("tracks")[k].num_points : k \in {i \in 1..Len(NewRows("tracks")) :
                                               "num_points" \in DOMAIN NewRows("tracks")[i]}}

\* C29: after every successful upload the point count in the tracks row,
\* the points value returned and the number of track_points rows committed
\* for the track are equal, also when parsed points lack a coordinate, in
\* the geometry and in the scalar representation
C29_PointCountsAgree ==
    UploadSucceeded =>
        /\ CountReturned = CountCommitted
        /\ \A n \in CountsInTrackRow : n = Num(CountCommitted)

\* what does hold: the value returned is the number of rows committed, and
\* the tracks row agrees when every parsed point has coordinates or the
\* rows are scalar
PointCountsAgreeWithoutGaps ==
    UploadSucceeded =>
        /\ CountReturned = CountCommitted
        /\ ((\A i \in 1..Len(rIn.file.pts) : HasCoords(rIn.file.pts[i])) \/ ScalarStatementBuilt) =>
              \A n \in CountsInTrackRow : n = Num(CountCommitted)
\* the external device ids of the batch, a missing one included
BatchEsns == {rIn.fetch.items[i].esn : i \in 1..Len(rIn.fetch.items)} \cup {None}
\* the devices row d belongs to the importing user, as far as the table
\* says whose it is
OfImportingUser(d) == "user_id" \in schema.dev.cols => d.user_id = Str(rIn.user_id)
\* d is a SPOT device with an external id of the batch, or has the name
\* synthesized from one
SpotKeyed(d) ==
    /\ "external_id" \in schema.dev.cols
    /\ d.external_id \in {ExternalIdVal(schema.dev, e) : e \in BatchEsns}
    /\ "provider" \in schema.dev.cols => d.provider = LabelVal(schema.dev, "provider", "spot")
    /\ "type" \in schema.dev.cols => d.type = LabelVal(schema.dev, "type", "spot")
SpotNamed(d) ==
    "name" \in schema.dev.cols /\ d.name \in {NameVal(schema.dev, e) : e \in BatchEsns}
CreatedByRequest(id) == \E k \in DeviceStmts : RowGet(rStmts[k].rows[1], "id") = id
\* every device id in a committed live_positions row of the import is the
\* id of a device created by the import, or of a device of the user that
\* is keyed or named as the batch's SPOT device
EveryDeviceIdRelated ==
    \A k \in 1..Len(NewRows("live_positions")) :
        LET id == RowGet(NewRows("live_positions")[k], "device_id")
        IN  id # None =>
              \/ CreatedByRequest(id)
              \/ \E i \in 1..Len(committed.devices) :
                    /\ committed.devices[i].id = id
                    /\ OfImportingUser(committed.devices[i])
                    /\ SpotKeyed(committed.devices[i]) \/ SpotNamed(committed.devices[i])

\* C30: every device id the import writes into a live_positions row refers
\* to a devices row of the importing user that was matched on the SPOT
\* provider and the external id or on the synthesized name, or to the
\* device the import created; in no devices schema does the fallback lookup
\* give a device of another user or an unrelated device of the user
C30_DeviceIdsRelated == (rIn.kind = "import" /\ Succeeded) => EveryDeviceIdRelated

\* what does hold: the same where the fallback lookup cannot run or runs on
\* user_id and name together
DeviceIdsRelatedWithFullFallback ==
    (/\ rIn.kind = "import" /\ Succeeded
     /\ "user_id" \in schema.dev.cols <=> "name" \in schema.dev.cols) => EveryDeviceIdRelated
====
